---- MODULE Spec2Model ----
(***************************************************************************)
(* The email triage decision pipeline (EmailTriageCommand.execute) with    *)
(* its collaborators: request validation, the idempotency ledger, the      *)
(* retry executor around the inference client, the local threshold         *)
(* re-check, the rollout-gated action, the ledger write and the telemetry  *)
(* sink.  Several invocations of execute run against one command object,   *)
(* one ledger, one sink and one action runtime.                            *)
(*                                                                         *)
(* Numbers: confidences and thresholds are in thousandths (0.995 is 995),  *)
(* the canary percentage is in tenths of a percent (100.0 is 1000), times  *)
(* are in milliseconds.                                                    *)
(*                                                                         *)
(* The ledger is the in-process store and the sink records every event it  *)
(* is given; neither operation fails.  The inference client and the two    *)
(* action-runtime operations may return or raise on every call.            *)
(***************************************************************************)
EXTENDS Integers, Sequences, FiniteSets, TLC

\* ------------------------------------------------------------------ bounds

\* Number of execute invocations in one behaviour.
NumInv == 2

\* Largest inference_retries a configuration carries (the smallest is -1).
MaxRetries == 1

Inv == 1..NumInv

\* ------------------------------------------------------- program constants

\* PluginConfig.archive_confidence_threshold default, in thousandths.
DefaultThreshold == 995

\* PluginConfig.inference_backoff_ms default.
DefaultBackoffMs == 200

\* redact_snippet: the default of max_chars.
SnippetMaxChars == 180

\* _is_in_canary: canary_percent >= 100.0, in tenths of a percent.
CanaryFull == 1000

\* ------------------------------------------------------------ raw values

\* A JSON value of the raw event, tagged by its Python type.
Str(s) == [t |-> "str", v |-> s]

NoneV == [t |-> "none", v |-> ""]

IntV == [t |-> "int", v |-> "42"]

\* str.strip() on the strings of the model.
Strip(s) == IF s \in {"", " ", "  "} THEN "" ELSE s

\* datetime.fromisoformat on the strings of the model (after the Z rewrite).
IsIsoDatetime(s) == s \in {"2026-02-14T12:00:00Z", "2026-02-14T12:00:00"}

MessageIds == {"m1", "m2"}

\* The event of the test suite (_event), for message m.
GoodEvent(m) ==
    [request_id |-> Str("r1"), message_id |-> Str(m), sender |-> Str("promo@example.com"),
     to |-> Str("me@example.com"), date |-> Str("2026-02-14T12:00:00Z"),
     is_read |-> [t |-> "bool", v |-> "False"]]

\* Raw events handed to execute: the well-formed ones and ones with one bad field.
Events ==
    {GoodEvent(m) : m \in MessageIds}
      \cup {[GoodEvent("m1") EXCEPT !.message_id = x] : x \in {NoneV, Str("  ")}}
      \cup {[GoodEvent("m2") EXCEPT !.sender = IntV]}
      \cup {[GoodEvent("m1") EXCEPT !.date = Str("yesterday")]}
      \cup {[GoodEvent("m2") EXCEPT !.is_read = Str("yes")]}

\* ----------------------------------------------------------- contracts.py

\* Mutant: _require_str called with allow_empty left at its default.
RequireStrAllowEmpty(value) == value.t = "str"

\* _require_str(data, key, allow_empty=False): TRUE when it returns.
RequireStrNonEmpty(value) ==
    /\ value.t # "none"
    /\ value.t = "str"
    /\ Strip(value.v) # ""

\* _parse_datetime: TRUE when it returns.
ParseDatetimeOk(value) ==
    /\ value.t = "str"
    /\ IsIsoDatetime(value.v)

\* _parse_bool of contracts.py: TRUE when it returns.
ParseBoolOk(value) == value.t = "bool"

\* EmailTriageRequest.from_dict: TRUE when it returns a request, FALSE when it
\* raises SchemaError.
FromDictOk(data) ==
    /\ RequireStrNonEmpty(data.request_id)
    /\ RequireStrNonEmpty(data.message_id)
    /\ RequireStrNonEmpty(data.sender)
    /\ RequireStrNonEmpty(data.to)
    /\ ParseDatetimeOk(data.date)
    /\ ParseBoolOk(data.is_read)

\* The request from_dict builds (the fields the pipeline reads).
FromDict(data) == [request_id |-> data.request_id.v, message_id |-> data.message_id.v]

NoRequest == [request_id |-> "", message_id |-> ""]

\* A key the payload does not have.
Absent == [t |-> "absent", v |-> ""]

\* A list of strings.
ListV(items) == [t |-> "list", v |-> items]

\* A bool.
BoolV(b) == [t |-> "bool", v |-> b]

\* A datetime object: the wall-clock time in minutes, and the offset from UTC in
\* minutes when it has a tzinfo.
Datetime(wall, aware, offset) == [wall |-> wall, aware |-> aware, offset |-> offset]

\* A date of the payload: a string, its wall-clock time followed by a zone
\* suffix ("" when it has none), a datetime object, or something else.
DateText(wall, zone) == [t |-> "str", wall |-> wall, zone |-> zone]

DateObject(dt) == [t |-> "datetime", dt |-> dt]

DateInt == [t |-> "int"]

\* The offsets datetime.fromisoformat reads, in minutes.
ZoneOffset(zone) == CASE zone = "+00:00" -> 0 [] zone = "+05:30" -> 330

\* The offsets datetime.isoformat writes.
OffsetZone(offset) == CASE offset = 0 -> "+00:00" [] offset = 330 -> "+05:30"

\* _parse_datetime: the error it raises, "" when it returns.  A trailing Z is
\* rewritten to +00:00 before datetime.fromisoformat.
ParseDatetimeError(value) ==
    IF value.t = "datetime" THEN ""
    ELSE IF value.t # "str" THEN "SchemaError"
    ELSE IF value.zone \notin {"", "Z", "+00:00", "+05:30"} THEN "SchemaError"
    ELSE ""

\* _parse_datetime when it returns: a datetime object is returned as it is; a
\* parsed string without offset is given the UTC zone.
ParseDatetime(value) ==
    IF value.t = "datetime" THEN value.dt
    ELSE IF value.zone = "" THEN Datetime(value.wall, TRUE, 0)
    ELSE Datetime(value.wall, TRUE, ZoneOffset(IF value.zone = "Z" THEN "+00:00" ELSE value.zone))

\* _iso: a datetime without tzinfo is given the UTC zone, then isoformat().
Iso(dt) ==
    IF ~dt.aware THEN DateText(dt.wall, OffsetZone(0))
    ELSE DateText(dt.wall, OffsetZone(dt.offset))

\* _require_str(data, key, default=""): TRUE when it returns.
RequireStrDefaultOk(value) == value.t \in {"absent", "str"}

\* _optional_str: TRUE when it returns.
OptionalStrOk(value) == value.t \in {"absent", "none", "str"}

\* _list_of_str: TRUE when it returns.
ListOfStrOk(value) == value.t \in {"absent", "none", "list"}

\* _parse_bool(data, key, default=False): TRUE when it returns.
ParseBoolDefaultOk(value) == value.t \in {"absent", "bool"}

\* EmailTriageRequest.from_dict on the fields of the model: the error it
\* raises, "" when it returns.
RequestFromDictError(data) ==
    IF /\ RequireStrNonEmpty(data.request_id)
       /\ RequireStrNonEmpty(data.message_id)
       /\ OptionalStrOk(data.thread_id)
       /\ RequireStrNonEmpty(data.sender)
       /\ RequireStrNonEmpty(data.to)
       /\ RequireStrDefaultOk(data.subject)
       /\ ParseDatetimeError(data.date) = ""
       /\ ListOfStrOk(data.gmail_labels)
       /\ ParseBoolDefaultOk(data.is_read)
    THEN ""
    ELSE "SchemaError"

\* EmailTriageRequest.from_dict when it returns: the request.
RequestFromDict(data) ==
    [request_id |-> data.request_id.v,
     message_id |-> data.message_id.v,
     thread_id |-> IF data.thread_id.t = "str" THEN data.thread_id ELSE NoneV,
     sender |-> data.sender.v,
     to |-> data.to.v,
     subject |-> IF data.subject.t = "absent" THEN "" ELSE data.subject.v,
     date |-> ParseDatetime(data.date),
     gmail_labels |-> IF data.gmail_labels.t = "list" THEN data.gmail_labels.v ELSE <<>>,
     is_read |-> IF data.is_read.t = "absent" THEN "False" ELSE data.is_read.v]

\* EmailTriageRequest.to_dict
RequestToDict(r) ==
    [request_id |-> Str(r.request_id),
     message_id |-> Str(r.message_id),
     thread_id |-> r.thread_id,
     sender |-> Str(r.sender),
     to |-> Str(r.to),
     subject |-> Str(r.subject),
     date |-> Iso(r.date),
     gmail_labels |-> ListV(r.gmail_labels),
     is_read |-> BoolV(r.is_read)]

\* datetime.__eq__: a datetime without tzinfo never equals one with; two with
\* tzinfo are equal when they are the same instant.
DatetimeEq(a, b) ==
    IF a.aware # b.aware THEN FALSE
    ELSE IF ~a.aware THEN a.wall = b.wall
    ELSE a.wall - a.offset = b.wall - b.offset

\* The generated __eq__ of the dataclass: field by field.
RequestEq(a, b) ==
    /\ \A f \in DOMAIN a \ {"date"} : a[f] = b[f]
    /\ DatetimeEq(a.date, b.date)

\* EmailTriageResponse.
Response(d, c, s, rs, ru, mv, th, l) ==
    [decision |-> d, confidence |-> c, source |-> s, reasoning |-> rs, rule |-> ru,
     model_version |-> mv, threshold_used |-> th, latency_ms |-> l]

\* The reasoning text: a fixed text and the values formatted into it.
Reasoning(text, err, conf, thr) == [text |-> text, err |-> err, conf |-> conf, thr |-> thr]

NoResponse == Response("", 0, "", Reasoning("", "", 0, 0), "", "", 0, 0)

\* A float: a number in thousandths, NaN, or an infinity.
Num(v) == [k |-> "num", v |-> v]

NaN == [k |-> "nan", v |-> 0]

Inf == [k |-> "inf", v |-> 0]

NegInf == [k |-> "-inf", v |-> 0]

\* 0.0 <= confidence <= 1.0: a comparison with NaN is false, and so is one of
\* the two comparisons with an infinity.
ConfidenceInRange(c) == c.k = "num" /\ 0 <= c.v /\ c.v <= 1000

\* Mutant: __post_init__ does not check the confidence.
PostInitErrorNoRange(decision, confidence, latency_ms) ==
    IF decision \notin {"archive", "needs_attention"} THEN "SchemaError"
    ELSE IF latency_ms < 0 THEN "SchemaError"
    ELSE ""

\* EmailTriageResponse.__post_init__: the error it raises, "" when it returns.
PostInitError(decision, confidence, latency_ms) ==
    IF decision \notin {"archive", "needs_attention"} THEN "SchemaError"
    ELSE IF ~ConfidenceInRange(confidence) THEN "SchemaError"
    ELSE IF latency_ms < 0 THEN "SchemaError"
    ELSE ""

\* A numeric field of the response payload as json.loads gives it: a number
\* (JSON also has NaN, Infinity and -Infinity), a string that is no number, null,
\* or no such key.
RawNum(v) == [k |-> "num", v |-> v]

RawText == [k |-> "text", v |-> 0]

RawNull == [k |-> "null", v |-> 0]

RawAbsent == [k |-> "absent", v |-> 0]

\* float(data.get(key, 0.0)): the error raised, "" when it returns.
FloatError(raw) ==
    CASE raw.k = "text" -> "ValueError"
      [] raw.k = "null" -> "TypeError"
      [] OTHER -> ""

\* float(data.get(key, 0.0)) when it returns.
FloatOf(raw) == IF raw.k = "absent" THEN Num(0) ELSE raw

\* int(data.get(key, 0)): the error raised, "" when it returns.
IntError(raw) ==
    CASE raw.k = "text" -> "ValueError"
      [] raw.k = "null" -> "TypeError"
      [] raw.k = "nan" -> "ValueError"
      [] raw.k \in {"inf", "-inf"} -> "OverflowError"
      [] OTHER -> ""

\* int(data.get(key, 0)) when it returns.
IntOf(raw) == IF raw.k = "absent" THEN 0 ELSE raw.v

\* The first error of the three conversions, in the order of the source.
ConversionError(data) ==
    IF FloatError(data.confidence) # "" THEN FloatError(data.confidence)
    ELSE IF FloatError(data.threshold_used) # "" THEN FloatError(data.threshold_used)
    ELSE IntError(data.latency_ms)

\* EmailTriageResponse.from_dict: the error it raises, "" when it returns.
\* TypeError and ValueError of the conversions become SchemaError; any other
\* error of theirs is not caught.
ResponseFromDictError(data) ==
    IF ConversionError(data) \in {"TypeError", "ValueError"} THEN "SchemaError"
    ELSE IF ConversionError(data) # "" THEN ConversionError(data)
    ELSE IF ~RequireStrNonEmpty(data.decision) THEN "SchemaError"
    ELSE IF ~RequireStrNonEmpty(data.source) THEN "SchemaError"
    ELSE IF ~RequireStrNonEmpty(data.model_version) THEN "SchemaError"
    ELSE PostInitError(data.decision.v, FloatOf(data.confidence), IntOf(data.latency_ms))

\* EmailTriageResponse.from_dict when it returns; reasoning and rule are absent
\* from the payloads of the model.
ResponseFromDict(data) ==
    Response(data.decision.v, FloatOf(data.confidence).v, data.source.v,
             Reasoning("", "", 0, 0), "", data.model_version.v,
             FloatOf(data.threshold_used).v, IntOf(data.latency_ms))

\* Responses the inference endpoint returns.  rule "" stands for None.
Responses ==
    { Response("archive", 999, "v1", Reasoning("safe", "", 0, 0), "", "v1", 995, 10),
      Response("archive", 900, "rules", Reasoning("promo", "", 0, 0), "r7", "v2", 800, 25),
      Response("archive", 995, "v1", Reasoning("edge", "", 0, 0), "", "v2", 999, 10),
      Response("needs_attention", 300, "v1", Reasoning("personal", "", 0, 0), "", "v1", 995, 10) }

\* -------------------------------------------------------------- config.py

\* PluginConfig.inference_retries default.
DefaultRetries == 2

\* _parse_int(value, default) on a raw value (a number stands for an int, or a
\* string that int() reads as it): None and what int() rejects with TypeError
\* or ValueError give the default.
ParseInt(raw, default) == IF raw.k = "num" THEN raw.v ELSE default

\* A PluginConfig snapshot (the fields execute reads).
Config(shadow, canary, archive, failOpen, retries) ==
    [shadow_mode |-> shadow, canary_percent |-> canary,
     email_triage_archive_enabled |-> archive, email_triage_fail_open |-> failOpen,
     inference_retries |-> retries, inference_backoff_ms |-> DefaultBackoffMs,
     model_version |-> "v1", archive_confidence_threshold |-> DefaultThreshold]

\* The snapshots a behaviour may run under: every setting of the rollout and
\* archive toggles without retries, and every retry count (negative too) under
\* the default toggles, with fail-open on and off.
Configs ==
    {Config(s, c, a, f, 0) : s \in BOOLEAN, c \in {0, 500, CanaryFull}, a \in BOOLEAN, f \in BOOLEAN}
      \cup {Config(FALSE, CanaryFull, TRUE, f, r) : f \in BOOLEAN, r \in (-1)..MaxRetries}

\* --------------------------------------------------------- idempotency.py

\* Mutant: the lookup builds its key in the wrong order.
IsAppliedSwappedKey(seen, message_id, decision_version) == <<decision_version, message_id>> \in seen

\* InMemoryIdempotencyStore.is_applied on the key set seen.
IsApplied(seen, message_id, decision_version) == <<message_id, decision_version>> \in seen

\* Mutant: mark_applied forgets to add the key.
MarkAppliedDropsKey(seen, message_id, decision_version) == seen

\* InMemoryIdempotencyStore.mark_applied: the key set afterwards.
MarkApplied(seen, message_id, decision_version) == seen \cup {<<message_id, decision_version>>}

\* Mutant: the lookup of the persistent store matches the message alone.
SqlIsAppliedAnyVersion(rows, message_id, decision_version) ==
    \E r \in rows : r.message_id = message_id

\* SQLiteIdempotencyStore.is_applied on the rows of triage_applied_actions:
\* SELECT 1 ... WHERE message_id = ? AND decision_version = ?
SqlIsApplied(rows, message_id, decision_version) ==
    \E r \in rows : r.message_id = message_id /\ r.decision_version = decision_version

\* Mutant: INSERT OR REPLACE, the row of the key is written anew.
SqlMarkAppliedReplaces(rows, message_id, decision_version, applied_at) ==
    {r \in rows : ~(r.message_id = message_id /\ r.decision_version = decision_version)}
       \cup {[message_id |-> message_id, decision_version |-> decision_version,
               applied_at |-> applied_at]}

\* SQLiteIdempotencyStore.mark_applied: the rows afterwards.  INSERT OR IGNORE
\* under PRIMARY KEY (message_id, decision_version) adds the row unless the key
\* has one.
SqlMarkApplied(rows, message_id, decision_version, applied_at) ==
    IF \E r \in rows : r.message_id = message_id /\ r.decision_version = decision_version
    THEN rows
    ELSE rows \cup {[message_id |-> message_id, decision_version |-> decision_version,
                     applied_at |-> applied_at]}

\* ------------------------------------------------------ inference_client.py

\* _ssl_context: the error it raises, "" when it returns.  It is called before
\* the try statement; a certificate file that cannot be read makes
\* ssl.create_default_context or load_cert_chain raise.
SslContextError(tls) == IF tls = "unreadable_file" THEN "FileNotFoundError" ELSE ""

\* The with statement around request.urlopen and response.read().decode: the
\* error that leaves it, "" when raw is assigned.  HTTPError, URLError,
\* TimeoutError and socket.timeout are turned into InferenceClientError; the
\* errors of http.client and of decode are not named by the except clauses.
UrlopenError(transport, status, body) ==
    CASE transport \in {"refused", "dns_failure", "timeout"} -> "InferenceClientError"
      [] transport = "disconnected" -> "RemoteDisconnected"
      [] transport = "connected" /\ status >= 400 -> "InferenceClientError"
      [] transport = "connected" /\ status < 400 /\ body = "truncated" -> "IncompleteRead"
      [] transport = "connected" /\ status < 400 /\ body = "not_utf8" -> "UnicodeDecodeError"
      [] OTHER -> ""

\* json.loads(raw) and the isinstance check: the error raised, "" when parsed
\* is a dictionary.
ParseError(json) == IF json \in {"malformed", "not_object"} THEN "InferenceClientError" ELSE ""

\* EmailTriageResponse.from_dict(parsed) inside classify: SchemaError becomes
\* InferenceClientError, any other error passes.
SchemaStepError(payload) ==
    IF ResponseFromDictError(payload) = "SchemaError" THEN "InferenceClientError"
    ELSE ResponseFromDictError(payload)

\* InferenceHTTPClient.classify: the error it raises, "" when it returns.
ClassifyError(call) ==
    IF SslContextError(call.tls) # "" THEN SslContextError(call.tls)
    ELSE IF UrlopenError(call.transport, call.status, call.body) # ""
         THEN UrlopenError(call.transport, call.status, call.body)
    ELSE IF ParseError(call.json) # "" THEN ParseError(call.json)
    ELSE SchemaStepError(call.payload)

\* The POST requests classify issues: request.urlopen is called once, unless
\* _ssl_context raised before it.
ClassifyPosts(call) == IF SslContextError(call.tls) # "" THEN 0 ELSE 1

\* ---------------------------------------------------------------- retry.py

\* range(max_retries + 1): whether the loop runs its body for this attempt.
RetryLoopRuns(attempt, max_retries) == attempt < max_retries + 1

\* Mutant: the break comes one failure late.
RetryGivesUpLate(attempt, max_retries) == attempt > max_retries

\* if attempt >= max_retries: break
RetryGivesUp(attempt, max_retries) == attempt >= max_retries

\* Mutant: the backoff does not grow.
BackoffConstant(base_backoff_ms, attempt) == base_backoff_ms

\* backoff = base_backoff_ms * 2**attempt, in milliseconds.
Backoff(base_backoff_ms, attempt) == base_backoff_ms * (2 ^ attempt)

\* ------------------------------------------------------ inference_client.py

\* Errors that leave InferenceHTTPClient.classify: the wrapped failures, and
\* the decode error of a body that is not UTF-8, which no except clause wraps.
ClientErrors == {"InferenceClientError", "UnicodeDecodeError"}

\* ---------------------------------------------------------------- compat.py

\* Text is a sequence of characters.
DigitChars == <<"0", "1", "2", "3", "4", "5", "6", "7", "8", "9">>

\* \d
IsDigit(c) == \E d \in 1..10 : DigitChars[d] = c

DigitValue(c) == (CHOOSE d \in 1..10 : DigitChars[d] = c) - 1

\* int(text) on a run of digits.
RECURSIVE ToInt(_)
ToInt(s) ==
    IF s = <<>> THEN 0
    ELSE 10 * ToInt(SubSeq(s, 1, Len(s) - 1)) + DigitValue(s[Len(s)])

RECURSIVE LStrip(_)
LStrip(s) == IF s # <<>> /\ s[1] = " " THEN LStrip(Tail(s)) ELSE s

RECURSIVE RStrip(_)
RStrip(s) == IF s # <<>> /\ s[Len(s)] = " " THEN RStrip(SubSeq(s, 1, Len(s) - 1)) ELSE s

\* str.strip()
StripChars(s) == RStrip(LStrip(s))

\* str.split(sep) for a one-character separator.
RECURSIVE Split(_, _)
Split(s, sep) ==
    IF \A k \in DOMAIN s : s[k] # sep
    THEN <<s>>
    ELSE LET k == CHOOSE k \in DOMAIN s : s[k] = sep /\ \A j \in 1..(k - 1) : s[j] # sep
         IN <<SubSeq(s, 1, k - 1)>> \o Split(SubSeq(s, k + 1, Len(s)), sep)

\* str.startswith(prefix)
StartsWith(s, prefix) == Len(s) >= Len(prefix) /\ SubSeq(s, 1, Len(prefix)) = prefix

\* \d+
AllDigits(s) == s # <<>> /\ \A k \in DOMAIN s : IsDigit(s[k])

\* _VERSION_RE.match: three runs of digits separated by two dots, nothing else.
VersionMatch(s) ==
    LET parts == Split(s, ".")
    IN Len(parts) = 3 /\ \A k \in 1..3 : AllDigits(parts[k])

\* SemVer.parse: ok is FALSE where it raises CompatibilityError.
SemVerParse(value) ==
    LET s == StripChars(value)
        parts == Split(s, ".")
    IN IF VersionMatch(s)
       THEN [ok |-> TRUE, triple |-> <<ToInt(parts[1]), ToInt(parts[2]), ToInt(parts[3])>>]
       ELSE [ok |-> FALSE, triple |-> <<0, 0, 0>>]

\* Mutant: _compare looks at major and minor only.
CompareIgnoresPatch(left, right) ==
    IF left[1] # right[1] THEN (IF left[1] < right[1] THEN -1 ELSE 1)
    ELSE IF left[2] # right[2] THEN (IF left[2] < right[2] THEN -1 ELSE 1)
    ELSE 0

\* _compare: the order of Python tuples, decided at the first differing component.
Compare(left, right) ==
    LET differ == {k \in 1..3 : left[k] # right[k]}
    IN IF differ = {} THEN 0
       ELSE LET k == CHOOSE k \in differ : \A j \in differ : k <= j
            IN IF left[k] < right[k] THEN -1 ELSE 1

\* operators, in the order _satisfies_token tries them.
Operators == << <<">", "=">>, <<"<", "=">>, <<"=", "=">>, <<">">>, <<"<">> >>

\* The comparison _satisfies_token returns for operator op.
OpHolds(op, cmp) ==
    CASE op = <<">", "=">> -> cmp >= 0
      [] op = <<"<", "=">> -> cmp <= 0
      [] op = <<"=", "=">> -> cmp = 0
      [] op = <<">">> -> cmp > 0
      [] OTHER -> cmp < 0

\* _satisfies_token: "True", "False", or "CompatibilityError" where it raises.
SatisfiesToken(version, token) ==
    LET t == StripChars(token)
        matching == {k \in DOMAIN Operators : StartsWith(t, Operators[k])}
    IN IF t = <<>> THEN "True"
       ELSE IF matching = {} THEN "CompatibilityError"
       ELSE LET k == CHOOSE k \in matching : \A j \in matching : k <= j
                op == Operators[k]
                rhs == SemVerParse(StripChars(SubSeq(t, Len(op) + 1, Len(t))))
            IN IF ~rhs.ok THEN "CompatibilityError"
               ELSE IF OpHolds(op, Compare(version, rhs.triple)) THEN "True"
               ELSE "False"

NonEmpty(s) == s # <<>>

\* [part.strip() for part in spec.split(",") if part.strip()]
Tokens(spec) ==
    LET parts == Split(spec, ",")
    IN SelectSeq([k \in DOMAIN parts |-> StripChars(parts[k])], NonEmpty)

\* all(_satisfies_token(version, token) for token in tokens): the generator is
\* consumed up to the first token that is not satisfied or that raises.
RECURSIVE AllSatisfied(_, _)
AllSatisfied(version, tokens) ==
    IF tokens = <<>> THEN "True"
    ELSE LET r == SatisfiesToken(version, Head(tokens))
         IN IF r = "True" THEN AllSatisfied(version, Tail(tokens)) ELSE r

\* is_supported_version: "True", "False", or "CompatibilityError" where it raises.
IsSupportedVersion(openclaw_version, spec) ==
    LET version == SemVerParse(openclaw_version)
    IN IF ~version.ok THEN "CompatibilityError"
       ELSE AllSatisfied(version.triple, Tokens(spec))

\* assert_supported_version: TRUE when it returns, FALSE when it raises
\* CompatibilityError (its own or the one of is_supported_version).
AssertSupportedVersionOk(openclaw_version, spec) ==
    IsSupportedVersion(openclaw_version, spec) = "True"

\* --------------------------------------------------------------- plugin.py

\* except (InferenceClientError, SchemaError)
CaughtByExecute(err) == err \in {"InferenceClientError", "SchemaError"}

\* Mutant: the except clause does not consult email_triage_fail_open.
AbsorbsAnyCaught(config, err) == CaughtByExecute(err)

\* The except clause of execute: TRUE to synthesize, FALSE to re-raise.
AbsorbsError(config, err) == CaughtByExecute(err) /\ config.email_triage_fail_open

\* Mutant: the duplicate response carries an archive decision.
DuplicateResponseArchive(config) ==
    Response("archive", 999, "plugin",
             Reasoning("duplicate message skipped by idempotency guard", "", 0, 0),
             "", config.model_version, config.archive_confidence_threshold, 0)

\* The response execute synthesizes for a duplicate.
DuplicateResponse(config) ==
    Response("needs_attention", 0, "plugin",
             Reasoning("duplicate message skipped by idempotency guard", "", 0, 0),
             "", config.model_version, config.archive_confidence_threshold, 0)

\* The response execute synthesizes on fail-open.
FailOpenResponse(config, err) ==
    Response("needs_attention", 0, "plugin",
             Reasoning("fail-open due to inference error", err, 0, 0),
             "", config.model_version, config.archive_confidence_threshold, 0)

\* Mutant: execute trusts the remote threshold check.
RecheckSkipped(config, response) == response

\* Mutant: the re-check compares with <= instead of <.
RecheckInclusive(config, response) ==
    IF /\ response.decision = "archive"
       /\ response.confidence <= config.archive_confidence_threshold
    THEN Response("needs_attention", response.confidence, response.source,
                  Reasoning("archive confidence below threshold", "", response.confidence,
                            config.archive_confidence_threshold),
                  response.rule, response.model_version,
                  config.archive_confidence_threshold, response.latency_ms)
    ELSE response

\* The defense-in-depth threshold check of execute.
ThresholdRecheck(config, response) ==
    IF /\ response.decision = "archive"
       /\ response.confidence < config.archive_confidence_threshold
    THEN Response("needs_attention", response.confidence, response.source,
                  Reasoning("archive confidence below threshold", "", response.confidence,
                            config.archive_confidence_threshold),
                  response.rule, response.model_version,
                  config.archive_confidence_threshold, response.latency_ms)
    ELSE response

\* int(sha256(message_id).hexdigest()[:8], 16) % 100 for the identifiers of the model.
Bucket(message_id) ==
    CASE message_id = "m1" -> 53
      [] message_id = "m2" -> 9
      [] message_id = "m3" -> 34
      [] message_id = "msg-323" -> 0
      [] message_id = "msg-196" -> 99
      [] message_id = "" -> 10

\* Mutant: the bucket test is <= instead of <.
IsInCanaryInclusive(config, message_id) ==
    IF config.canary_percent >= CanaryFull THEN TRUE
    ELSE IF config.canary_percent <= 0 THEN FALSE
    ELSE Bucket(message_id) <= config.canary_percent \div 10

\* Mutant: the percentage is taken modulo 100, so 100 percent admits nothing.
IsInCanaryModulo(config, message_id) ==
    IF config.canary_percent <= 0 THEN FALSE
    ELSE Bucket(message_id) < (config.canary_percent \div 10) % 100

\* EmailTriageCommand._is_in_canary; int(canary_percent) is percent \div 10.
IsInCanary(config, message_id) ==
    IF config.canary_percent >= CanaryFull THEN TRUE
    ELSE IF config.canary_percent <= 0 THEN FALSE
    ELSE Bucket(message_id) < config.canary_percent \div 10

\* Mutant: the first branch does not consult shadow_mode.
ShadowBranchCanaryOnly(config, message_id) == ~IsInCanary(config, message_id)

\* _apply_action, first branch: keep in inbox, report shadow_kept.
ShadowBranch(config, message_id) == config.shadow_mode \/ ~IsInCanary(config, message_id)

\* _apply_action, second branch: keep in inbox.
KeepBranch(config, response) ==
    response.decision # "archive" \/ ~config.email_triage_archive_enabled

\* Mutant: the second branch always reports kept_in_inbox.
KeepStatusAlwaysKept(config, response) == "kept_in_inbox"

\* _apply_action, the status of the second branch.
KeepStatus(config, response) ==
    IF ~config.email_triage_archive_enabled /\ response.decision = "archive"
    THEN "archive_disabled_kept"
    ELSE "kept_in_inbox"

\* The dictionary execute returns for a duplicate.
DuplicateResult(config) ==
    [action_status |-> "duplicate_skipped", decision |-> "needs_attention",
     source |-> "plugin", model_version |-> config.model_version]

\* The dictionary execute returns otherwise.
FullResult(action_status, response) ==
    [action_status |-> action_status, decision |-> response.decision,
     confidence |-> response.confidence, source |-> response.source,
     rule |-> response.rule, reasoning |-> response.reasoning,
     model_version |-> response.model_version,
     threshold_used |-> response.threshold_used, latency_ms |-> response.latency_ms]

NoResult == [action_status |-> "none"]

\* ------------------------------------------------------------ telemetry.py

\* Mutant: the event reports the decision the classifier is asked for, not the
\* one of the response.
BuildDecisionEventArchive(request, response, action_status) ==
    [request_id |-> request.request_id, message_id |-> request.message_id,
     decision |-> "archive", confidence |-> response.confidence,
     source |-> response.source, rule |-> response.rule,
     model_version |-> response.model_version, latency_ms |-> response.latency_ms,
     action_status |-> action_status]

\* build_decision_event: the decision fields of the DecisionEvent.
BuildDecisionEvent(request, response, action_status) ==
    [request_id |-> request.request_id, message_id |-> request.message_id,
     decision |-> response.decision, confidence |-> response.confidence,
     source |-> response.source, rule |-> response.rule,
     model_version |-> response.model_version, latency_ms |-> response.latency_ms,
     action_status |-> action_status]

\* [A-Za-z]
Letters ==
    {"a", "b", "c", "d", "e", "f", "g", "h", "i", "j", "k", "l", "m", "n", "o", "p", "q",
     "r", "s", "t", "u", "v", "w", "x", "y", "z", "A", "B", "C", "D", "E", "F", "G", "H",
     "I", "J", "K", "L", "M", "N", "O", "P", "Q", "R", "S", "T", "U", "V", "W", "X", "Y", "Z"}

\* [0-9]
Digits == {DigitChars[d] : d \in 1..10}

\* [A-Za-z0-9._%+-]
LocalChars == Letters \cup Digits \cup {".", "_", "%", "+", "-"}

\* [A-Za-z0-9.-]
DomainChars == Letters \cup Digits \cup {".", "-"}

\* The end of the longest run of characters of class starting at position i
\* (i - 1 when there is none): a greedy quantifier followed by a character
\* outside the class.
RunEnd(s, i, class) ==
    IF i > Len(s) THEN i - 1
    ELSE LET stops == {j \in i..(Len(s) + 1) : j = Len(s) + 1 \/ s[j] \notin class}
         IN  (CHOOSE j \in stops : \A k \in stops : j <= k) - 1

\* s has character c at position i.
CharAt(s, i, c) == i <= Len(s) /\ s[i] = c

\* _EMAIL_PATTERN matched at position i: the end of the match, 0 when there is
\* none.  The pattern is a raw string with doubled backslashes, so it reads: a
\* backslash, the letter b, local characters, @, domain characters, a
\* backslash, any character but a newline, two letters or more, a backslash,
\* the letter b.
EmailMatchEnd(s, i) ==
    LET a == RunEnd(s, i + 2, LocalChars)
        d == RunEnd(s, a + 2, DomainChars)
        t == RunEnd(s, d + 3, Letters)
    IN  IF /\ CharAt(s, i, "\\") /\ CharAt(s, i + 1, "b")
           /\ a >= i + 2 /\ CharAt(s, a + 1, "@")
           /\ d >= a + 2 /\ CharAt(s, d + 1, "\\")
           /\ d + 2 <= Len(s) /\ s[d + 2] # "\n"
           /\ t >= d + 4 /\ CharAt(s, t + 1, "\\") /\ CharAt(s, t + 2, "b")
        THEN t + 2
        ELSE 0

\* _LONG_NUMBER_PATTERN matched at position i: the end of the match, 0 when
\* there is none.  With its doubled backslashes the pattern reads: a backslash,
\* the letter b, a backslash, the letter d four times or more, a backslash, the
\* letter b.
NumberMatchEnd(s, i) ==
    LET t == RunEnd(s, i + 3, {"d"})
    IN  IF /\ CharAt(s, i, "\\") /\ CharAt(s, i + 1, "b") /\ CharAt(s, i + 2, "\\")
           /\ t >= i + 6 /\ CharAt(s, t + 1, "\\") /\ CharAt(s, t + 2, "b")
        THEN t + 2
        ELSE 0

EmailPlaceholder == <<"[", "e", "m", "a", "i", "l", "]">>

NumberPlaceholder == <<"[", "n", "u", "m", "b", "e", "r", "]">>

\* The smallest number of a non-empty set of numbers.
Smallest(S) == CHOOSE k \in S : \A j \in S : k <= j

\* _EMAIL_PATTERN.sub("[email]", s): the leftmost match is replaced, and the
\* search goes on after it.
RECURSIVE EmailSub(_)
EmailSub(s) ==
    LET starts == {i \in DOMAIN s : EmailMatchEnd(s, i) # 0}
    IN  IF starts = {} THEN s
        ELSE SubSeq(s, 1, Smallest(starts) - 1) \o EmailPlaceholder
                \o EmailSub(SubSeq(s, EmailMatchEnd(s, Smallest(starts)) + 1, Len(s)))

\* _LONG_NUMBER_PATTERN.sub("[number]", s)
RECURSIVE NumberSub(_)
NumberSub(s) ==
    LET starts == {i \in DOMAIN s : NumberMatchEnd(s, i) # 0}
    IN  IF starts = {} THEN s
        ELSE SubSeq(s, 1, Smallest(starts) - 1) \o NumberPlaceholder
                \o NumberSub(SubSeq(s, NumberMatchEnd(s, Smallest(starts)) + 1, Len(s)))

\* text[:max_chars]
Prefix(text, max_chars) == SubSeq(text, 1, IF Len(text) < max_chars THEN Len(text) ELSE max_chars)

\* redact_snippet with the default max_chars.
RedactSnippet(text) == NumberSub(EmailSub(Prefix(text, SnippetMaxChars)))

\* _sha256_hex: the digest is opaque, and distinct for distinct texts.
Sha256Hex(value) == <<"sha256", value>>

UpperCase ==
    <<"A", "B", "C", "D", "E", "F", "G", "H", "I", "J", "K", "L", "M",
      "N", "O", "P", "Q", "R", "S", "T", "U", "V", "W", "X", "Y", "Z">>

LowerCase ==
    <<"a", "b", "c", "d", "e", "f", "g", "h", "i", "j", "k", "l", "m",
      "n", "o", "p", "q", "r", "s", "t", "u", "v", "w", "x", "y", "z">>

\* str.lower()
Lower(s) ==
    [k \in DOMAIN s |->
        IF \E u \in 1..26 : UpperCase[u] = s[k]
        THEN LowerCase[CHOOSE u \in 1..26 : UpperCase[u] = s[k]]
        ELSE s[k]]

\* The positions of character c in s.
Positions(s, c) == {k \in DOMAIN s : s[k] = c}

\* The largest number of a non-empty set of numbers.
Largest(S) == CHOOSE k \in S : \A j \in S : j <= k

\* email.utils.parseaddr(sender)[1] for the sender forms of the model: the text
\* between angle brackets when there is one, otherwise the stripped text, which
\* is no address (and gives "") when it holds more than one @.
ParseAddr(sender) ==
    IF Positions(sender, "<") # {} /\ Positions(sender, ">") # {}
    THEN LET lt == Largest(Positions(sender, "<"))
             gt == Largest(Positions(sender, ">"))
         IN  IF lt < gt THEN SubSeq(sender, lt + 1, gt - 1) ELSE <<>>
    ELSE IF Cardinality(Positions(sender, "@")) > 1 THEN <<>>
         ELSE StripChars(sender)

\* _sender_domain
SenderDomain(sender) ==
    LET addr == ParseAddr(sender)
    IN  IF Positions(addr, "@") = {} THEN <<>>
        ELSE Lower(SubSeq(addr, Largest(Positions(addr, "@")) + 1, Len(addr)))

\* build_decision_event: the redaction fields of the DecisionEvent; thread_id
\* <<>> stands for None and for "", which are hashed alike.
RedactionFields(request) ==
    [thread_id_hash |-> Sha256Hex(request.thread_id),
     sender_domain |-> SenderDomain(request.sender),
     subject_hash |-> Sha256Hex(request.subject),
     snippet_redacted |-> RedactSnippet(request.body_text)]

\* json.dumps(event.to_dict()): the text of one object on one line; of the
\* event's fields the two that load_decisions reads besides the timestamp.
JsonDumps(ev) == <<"{", ev.message_id, ev.action_status, "}">>

\* What JsonlDecisionSink.log writes after the object: "\\n" in the source, a
\* backslash and the letter n.
LineEnd == <<"\\", "n">>

\* JsonlDecisionSink.log: the text of the file after the append.
LogAppends(text, ev) == text \o JsonDumps(ev) \o LineEnd

\* ------------------------------------------------------------------ state

VARIABLES
    config,        \* EmailTriageCommand.config
    ledger,        \* InMemoryIdempotencyStore._seen
    sink,          \* the events given to decision_sink.log, in order, each with its invocation
    archived,      \* per message, the archive_email calls that returned
    kept,          \* per message, the keep_in_inbox calls that returned
    pc,            \* per invocation, its position in execute
    event,         \* per invocation, the raw event it was given
    request,       \* per invocation, the local request
    attempt,       \* per invocation, the loop variable of run_with_retries
    lastError,     \* per invocation, last_error of run_with_retries ("" is None)
    received,      \* per invocation, the response classify returned
    origin,        \* per invocation, where the local response came from
    response,      \* per invocation, the local response
    actionStatus,  \* per invocation, the local action_status
    result,        \* per invocation, the dictionary returned
    error,         \* per invocation, the error raised to the caller ("" is none)
    calls,         \* per invocation, the calls it made on its collaborators, in order
    lookupAfterMark \* per invocation, whether its is_applied call came after a completed
                   \* mark_applied call of any invocation for the same key

\* The frames of the functions that are also exercised on their own.
VARIABLES
    rx,            \* one run of run_with_retries: its arguments, locals and history
    gate,          \* one call of is_supported_version: its arguments and its outcome
    reg,           \* one call of register: the context, the registry and its position
    canary         \* the calls of _is_in_canary on one message: the argument, the
                   \* result, and the percentage and result of the call before

\* The frames of the functions that handle data, exercised on their own too.
VARIABLES
    redact,        \* one call of build_decision_event: the request's text fields
                   \* and the event's redaction fields
    jsonl,         \* the file of a JsonlDecisionSink: its text, the events logged, and
                   \* what load_decisions made of it
    store,         \* an in-memory and an SQLite idempotency store, the clock, and the
                   \* calls made on them
    resp,          \* the EmailTriageResponse objects made from one set of arguments:
                   \* the arguments, the objects, the error of a failed construction
    client,        \* one call of classify: what the endpoint does, the POSTs made, and
                   \* the outcome
    req,           \* one round trip of a request: the payload, the request made of
                   \* it, its to_dict, and the request made of that
    restore,       \* one snapshot and target tree: the manifest entries, the include
                   \* filter, the tree, and what the dry run and the applying run did
    rollback,      \* one run of the rollback evaluator: the events of its two files, its
                   \* arguments, its report, and the override file
    cfg            \* one call of PluginConfig.from_sources: the configuration object,
                   \* the environment, and the PluginConfig built or the error raised

pipelineVars ==
    <<config, ledger, sink, archived, kept, pc, event, request, attempt, lastError,
      received, origin, response, actionStatus, result, error, calls, lookupAfterMark>>

ioVars == <<redact, jsonl, store, resp, client, req, restore, rollback, cfg>>

unitVars == <<rx, gate, reg, canary, ioVars>>

vars == <<pipelineVars, unitVars>>

\* One call on a collaborator: the operation, the message identifier passed,
\* the duration passed (sleep), and the error it raised ("" when it returned).
Call(op, msg, ms, err) == [op |-> op, msg |-> msg, ms |-> ms, err |-> err]

\* No run of run_with_retries.
NoRun ==
    [pc |-> "none", max_retries |-> 0, base_backoff_ms |-> 0, attempt |-> 0,
     last_error |-> "", outcomes |-> <<>>, sleeps |-> <<>>, value |-> "", raised |-> ""]

\* No call of is_supported_version.
NoGate ==
    [pc |-> "none", v |-> [wf |-> FALSE, triple |-> <<0, 0, 0>>, text |-> <<>>],
     toks |-> <<>>, openclaw_version |-> <<>>, spec |-> <<>>, outcome |-> ""]

\* No call of register.
NoRegistration ==
    [pc |-> "none", openclaw_version |-> [declared |-> FALSE, text |-> <<>>],
     conf_base_url |-> FALSE, env_base_url |-> FALSE, supported_openclaw_versions |-> <<>>,
     idempotency_sqlite_path |-> "none", commands |-> <<>>, error |-> "", done |-> <<>>]

\* No call of _is_in_canary.
NoCanary == [pc |-> "none", message_id |-> "", result |-> FALSE, before |-> <<>>]

\* No call of build_decision_event on its own.
NoRedact ==
    [pc |-> "none", sender |-> <<>>, subject |-> <<>>, thread_id |-> <<>>,
     body_text |-> <<>>, event |-> <<>>]

\* No JsonlDecisionSink: the file is absent.
NoFile == [pc |-> "none", exists |-> FALSE, text |-> <<>>, logged |-> <<>>, loaded |-> <<>>,
           error |-> ""]

\* No idempotency store on its own.
NoStore ==
    [pc |-> "none", seen |-> {}, rows |-> {}, now |-> 0, calls |-> <<>>]

\* No construction of an EmailTriageResponse on its own.
NoConstruction ==
    [pc |-> "none", decision |-> "", confidence |-> Num(0),
     latency_ms |-> 0, objects |-> <<>>, error |-> ""]

\* No call of classify on its own.
NoClassify ==
    [pc |-> "none", tls |-> "", transport |-> "", status |-> 0, body |-> "", json |-> "",
     payload |-> <<>>, posts |-> 0, error |-> "", returned |-> NoResponse]

\* No round trip of a request.
NoRoundTrip ==
    [pc |-> "none", payload |-> <<>>, request |-> <<>>, out |-> <<>>, again |-> <<>>,
     error |-> ""]

\* No call of restore_snapshot.
NoRestore ==
    [pc |-> "none", entries |-> <<>>, include |-> {}, target |-> <<>>,
     dry |-> <<>>, applying |-> <<>>]

\* No run of the rollback evaluator.
NoEvaluation ==
    [pc |-> "none", decisions |-> <<>>, corrections |-> <<>>, rollback_threshold |-> 0,
     window_hours |-> 0, write_env |-> FALSE, report |-> <<>>, env_file |-> <<>>]

\* No call of PluginConfig.from_sources on its own.
NoSources == [pc |-> "none", conf |-> <<>>, env |-> <<>>, built |-> <<>>, error |-> ""]

\* None of the data-handling functions is called, except the one named.
IoIdleBut(x) ==
    /\ IF x = "redact" THEN TRUE ELSE redact = NoRedact
    /\ IF x = "jsonl" THEN TRUE ELSE jsonl = NoFile
    /\ IF x = "store" THEN TRUE ELSE store = NoStore
    /\ IF x = "resp" THEN TRUE ELSE resp = NoConstruction
    /\ IF x = "client" THEN TRUE ELSE client = NoClassify
    /\ IF x = "req" THEN TRUE ELSE req = NoRoundTrip
    /\ IF x = "restore" THEN TRUE ELSE restore = NoRestore
    /\ IF x = "rollback" THEN TRUE ELSE rollback = NoEvaluation
    /\ IF x = "cfg" THEN TRUE ELSE cfg = NoSources

\* The frames of the data-handling functions stay, except the one named.
IoUnchangedBut(x) ==
    /\ IF x = "redact" THEN TRUE ELSE UNCHANGED redact
    /\ IF x = "jsonl" THEN TRUE ELSE UNCHANGED jsonl
    /\ IF x = "store" THEN TRUE ELSE UNCHANGED store
    /\ IF x = "resp" THEN TRUE ELSE UNCHANGED resp
    /\ IF x = "client" THEN TRUE ELSE UNCHANGED client
    /\ IF x = "req" THEN TRUE ELSE UNCHANGED req
    /\ IF x = "restore" THEN TRUE ELSE UNCHANGED restore
    /\ IF x = "rollback" THEN TRUE ELSE UNCHANGED rollback
    /\ IF x = "cfg" THEN TRUE ELSE UNCHANGED cfg

\* Neither the retry executor, the version gate, register nor _is_in_canary is
\* called on its own.
UnitsIdle ==
    /\ rx = NoRun
    /\ gate = NoGate
    /\ reg = NoRegistration
    /\ canary = NoCanary

\* A command object on which execute has not been called.
PipelineFresh ==
    /\ ledger = {}
    /\ sink = <<>>
    /\ archived = [m \in MessageIds |-> 0]
    /\ kept = [m \in MessageIds |-> 0]
    /\ pc = [i \in Inv |-> "idle"]
    /\ event = [i \in Inv |-> GoodEvent("m1")]
    /\ request = [i \in Inv |-> NoRequest]
    /\ attempt = [i \in Inv |-> 0]
    /\ lastError = [i \in Inv |-> ""]
    /\ received = [i \in Inv |-> NoResponse]
    /\ origin = [i \in Inv |-> "none"]
    /\ response = [i \in Inv |-> NoResponse]
    /\ actionStatus = [i \in Inv |-> ""]
    /\ result = [i \in Inv |-> NoResult]
    /\ error = [i \in Inv |-> ""]
    /\ calls = [i \in Inv |-> <<>>]
    /\ lookupAfterMark = [i \in Inv |-> FALSE]

Init ==
    /\ config \in Configs
    /\ PipelineFresh
    /\ rx = NoRun
    /\ gate = NoGate
    /\ reg = NoRegistration
    /\ canary = NoCanary
    /\ IoIdleBut("")

\* ---------------------------------------------------------------- actions

\* Mutant: the ledger key leaves the message identifier out.
KeyWithoutMessage(i) == <<"", config.model_version>>

\* Mutant: once a response is there, the key takes the version it reports.
KeyOfResponse(i) ==
    <<request[i].message_id,
      IF response[i] = NoResponse THEN config.model_version ELSE response[i].model_version>>

Key(i) == <<request[i].message_id, config.model_version>>

\* The position and error of an invocation that raises err to its caller.
Raise(i, err) ==
    /\ pc' = [pc EXCEPT ![i] = "raised"]
    /\ error' = [error EXCEPT ![i] = err]

\* run_with_retries returns or raises: its locals are gone.
LeaveRetry(i) ==
    /\ attempt' = [attempt EXCEPT ![i] = 0]
    /\ lastError' = [lastError EXCEPT ![i] = ""]

\* An invocation that has not been called, or has returned or raised.
Inactive(i) == pc[i] \in {"idle", "returned", "raised"}

\* What the model keeps of f when a new call of execute begins: the values of
\* the invocations still running.  Of a finished invocation it keeps what the
\* caller got (result, error) and the request; its frame and the record of its
\* calls are dropped.
Running(f, init) == [j \in Inv |-> IF Inactive(j) THEN init ELSE f[j]]

\* execute is called with a raw event; EmailTriageRequest.from_dict runs.
\* Invocations are numbered in the order they are called.
Validate(i) ==
    /\ pc[i] = "idle"
    /\ i > 1 => pc[i - 1] # "idle"
    /\ \E ev \in Events :
        /\ event' = [Running(event, GoodEvent("m1")) EXCEPT ![i] = ev]
        /\ IF FromDictOk(ev)
           THEN /\ request' = [request EXCEPT ![i] = FromDict(ev)]
                /\ pc' = [pc EXCEPT ![i] = "lookup"]
                /\ error' = error
           ELSE /\ request' = request
                /\ Raise(i, "SchemaError")
    /\ received' = Running(received, NoResponse)
    /\ origin' = Running(origin, "none")
    /\ response' = Running(response, NoResponse)
    /\ actionStatus' = Running(actionStatus, "")
    /\ calls' = Running(calls, <<>>)
    /\ lookupAfterMark' = Running(lookupAfterMark, FALSE)
    /\ UNCHANGED <<unitVars, config, ledger, sink, archived, kept, attempt, lastError, result>>

\* Invocation j has completed its mark_applied call: it is past the record step
\* (a duplicate returns without reaching it).
MarkCompleted(j) ==
    \/ pc[j] = "telemetry"
    \/ pc[j] = "returned" /\ result[j] # DuplicateResult(config)

\* if self.idempotency_store.is_applied(...): build the duplicate response.
DuplicateCheck(i) ==
    /\ pc[i] = "lookup"
    /\ calls' = [calls EXCEPT ![i] = Append(@, Call("is_applied", Key(i)[1], 0, ""))]
    /\ lookupAfterMark' = [lookupAfterMark EXCEPT ![i] =
            \E j \in Inv : MarkCompleted(j) /\ request[j].message_id = request[i].message_id]
    /\ IF IsApplied(ledger, Key(i)[1], Key(i)[2])
       THEN /\ response' = [response EXCEPT ![i] = DuplicateResponse(config)]
            /\ origin' = [origin EXCEPT ![i] = "duplicate"]
            /\ pc' = [pc EXCEPT ![i] = "duplicate"]
       ELSE /\ pc' = [pc EXCEPT ![i] = "retry"]
            /\ UNCHANGED <<response, origin>>
    /\ UNCHANGED <<unitVars, config, ledger, sink, archived, kept, event, request, attempt,
                   lastError, received, actionStatus, result, error>>

\* The duplicate path: log the event and return the short dictionary.
DuplicateSkip(i) ==
    /\ pc[i] = "duplicate"
    /\ sink' = Append(sink, [inv |-> i,
                             ev |-> BuildDecisionEvent(request[i], response[i], "duplicate_skipped")])
    /\ calls' = [calls EXCEPT ![i] = Append(@, Call("log", request[i].message_id, 0, ""))]
    /\ result' = [result EXCEPT ![i] = DuplicateResult(config)]
    /\ pc' = [pc EXCEPT ![i] = "returned"]
    /\ UNCHANGED <<unitVars, config, ledger, archived, kept, event, request, attempt, lastError,
                   received, origin, response, actionStatus, error,
                   lookupAfterMark>>

\* run_with_retries whose loop runs no iteration (max_retries < 0): the assert on
\* last_error fails, and execute's except clause does not catch that error.
RetryLoopEmpty(i) ==
    /\ pc[i] = "retry"
    /\ ~RetryLoopRuns(attempt[i], config.inference_retries)
    /\ Raise(i, "AssertionError")
    /\ LeaveRetry(i)
    /\ UNCHANGED <<unitVars, config, ledger, sink, archived, kept, event, request,
                   received, origin, response, actionStatus, result, calls,
                   lookupAfterMark>>

\* One attempt of run_with_retries in which classify returns; then the
\* threshold re-check of execute.
ClassifyReturn(i) ==
    /\ pc[i] = "retry"
    /\ RetryLoopRuns(attempt[i], config.inference_retries)
    /\ \E r \in Responses :
        /\ received' = [received EXCEPT ![i] = r]
        /\ response' = [response EXCEPT ![i] = ThresholdRecheck(config, r)]
    /\ origin' = [origin EXCEPT ![i] = "client"]
    /\ calls' = [calls EXCEPT ![i] = Append(@, Call("classify", request[i].message_id, 0, ""))]
    /\ pc' = [pc EXCEPT ![i] = "apply"]
    /\ LeaveRetry(i)
    /\ UNCHANGED <<unitVars, config, ledger, sink, archived, kept, event, request,
                   actionStatus, result, error,
                   lookupAfterMark>>

\* One attempt of run_with_retries in which classify raises: either the loop
\* goes on to its sleep, or it breaks and raises last_error into execute, which
\* re-raises it or synthesizes the fail-open response and re-checks it.
ClassifyRaise(i) ==
    /\ pc[i] = "retry"
    /\ RetryLoopRuns(attempt[i], config.inference_retries)
    /\ \E err \in ClientErrors :
        /\ calls' = [calls EXCEPT ![i] = Append(@, Call("classify", request[i].message_id, 0, err))]
        /\ IF ~RetryGivesUp(attempt[i], config.inference_retries)
           THEN /\ lastError' = [lastError EXCEPT ![i] = err]
                /\ pc' = [pc EXCEPT ![i] = "sleep"]
                /\ UNCHANGED <<attempt, response, origin, error>>
           ELSE /\ LeaveRetry(i)
                /\ IF AbsorbsError(config, err)
                   THEN /\ response' = [response EXCEPT ![i] =
                                           ThresholdRecheck(config, FailOpenResponse(config, err))]
                        /\ origin' = [origin EXCEPT ![i] = "fail_open"]
                        /\ pc' = [pc EXCEPT ![i] = "apply"]
                        /\ error' = error
                   ELSE /\ Raise(i, err)
                        /\ UNCHANGED <<response, origin>>
    /\ UNCHANGED <<unitVars, config, ledger, sink, archived, kept, event, request,
                   received, actionStatus, result,
                   lookupAfterMark>>

\* The sleep of run_with_retries, were the loop variable not to advance.
SleepKeepsAttempt(i) ==
    /\ pc[i] = "sleep"
    /\ calls' = [calls EXCEPT ![i] =
                    Append(@, Call("sleep", "", Backoff(config.inference_backoff_ms, attempt[i]), ""))]
    /\ pc' = [pc EXCEPT ![i] = "retry"]
    /\ UNCHANGED <<unitVars, config, ledger, sink, archived, kept, event, request, attempt,
                   lastError, received, origin, response, actionStatus, result, error,
                   lookupAfterMark>>

\* sleep_fn(backoff), then the next iteration of the loop.
Sleep(i) ==
    /\ pc[i] = "sleep"
    /\ calls' = [calls EXCEPT ![i] =
                    Append(@, Call("sleep", "", Backoff(config.inference_backoff_ms, attempt[i]), ""))]
    /\ attempt' = [attempt EXCEPT ![i] = @ + 1]
    /\ pc' = [pc EXCEPT ![i] = "retry"]
    /\ UNCHANGED <<unitVars, config, ledger, sink, archived, kept, event, request, lastError,
                   received, origin, response, actionStatus, result, error,
                   lookupAfterMark>>

\* runtime.keep_in_inbox(message_id) returns (ok) or raises; a raise leaves
\* _apply_action and execute, no handler being around the call.
KeepInInbox(i, status, ok) ==
    /\ calls' = [calls EXCEPT ![i] =
                    Append(@, Call("keep_in_inbox", request[i].message_id, 0,
                                   IF ok THEN "" ELSE "RuntimeError"))]
    /\ IF ok
       THEN /\ kept' = [kept EXCEPT ![request[i].message_id] = @ + 1]
            /\ actionStatus' = [actionStatus EXCEPT ![i] = status]
            /\ pc' = [pc EXCEPT ![i] = "record"]
            /\ error' = error
       ELSE /\ Raise(i, "RuntimeError")
            /\ UNCHANGED <<kept, actionStatus>>

\* _apply_action, shadow mode or not in canary.
ApplyShadow(i) ==
    /\ pc[i] = "apply"
    /\ ShadowBranch(config, request[i].message_id)
    /\ \E ok \in BOOLEAN : KeepInInbox(i, "shadow_kept", ok)
    /\ UNCHANGED <<unitVars, config, ledger, sink, archived, event, request, attempt, lastError,
                   received, origin, response, result,
                   lookupAfterMark>>

\* _apply_action, decision not archive or archiving disabled.
ApplyKeep(i) ==
    /\ pc[i] = "apply"
    /\ ~ShadowBranch(config, request[i].message_id)
    /\ KeepBranch(config, response[i])
    /\ \E ok \in BOOLEAN : KeepInInbox(i, KeepStatus(config, response[i]), ok)
    /\ UNCHANGED <<unitVars, config, ledger, sink, archived, event, request, attempt, lastError,
                   received, origin, response, result,
                   lookupAfterMark>>

\* _apply_action, runtime.archive_email(message_id) returns or raises.
ApplyArchive(i) ==
    /\ pc[i] = "apply"
    /\ ~ShadowBranch(config, request[i].message_id)
    /\ ~KeepBranch(config, response[i])
    /\ \E ok \in BOOLEAN :
        /\ calls' = [calls EXCEPT ![i] =
                        Append(@, Call("archive_email", request[i].message_id, 0,
                                       IF ok THEN "" ELSE "RuntimeError"))]
        /\ IF ok
           THEN /\ archived' = [archived EXCEPT ![request[i].message_id] = @ + 1]
                /\ actionStatus' = [actionStatus EXCEPT ![i] = "archived"]
                /\ pc' = [pc EXCEPT ![i] = "record"]
           ELSE /\ pc' = [pc EXCEPT ![i] = "compensate"]
                /\ UNCHANGED <<archived, actionStatus>>
    /\ UNCHANGED <<unitVars, config, ledger, sink, kept, event, request, attempt, lastError,
                   received, origin, response, result, error,
                   lookupAfterMark>>

\* The except clause around archive_email, were it to report action_failed
\* without the compensating keep_in_inbox call.
CompensateSilently(i) ==
    /\ pc[i] = "compensate"
    /\ actionStatus' = [actionStatus EXCEPT ![i] = "action_failed"]
    /\ pc' = [pc EXCEPT ![i] = "record"]
    /\ UNCHANGED <<unitVars, config, ledger, sink, archived, kept, event, request, attempt,
                   lastError, received, origin, response, result, error, calls,
                   lookupAfterMark>>

\* _apply_action, the except clause around archive_email.
Compensate(i) ==
    /\ pc[i] = "compensate"
    /\ \E ok \in BOOLEAN : KeepInInbox(i, "action_failed", ok)
    /\ UNCHANGED <<unitVars, config, ledger, sink, archived, event, request, attempt, lastError,
                   received, origin, response, result,
                   lookupAfterMark>>

\* The record step, were the telemetry event logged before the ledger write.
RecordAfterLog(i) ==
    /\ pc[i] = "record"
    /\ sink' = Append(sink, [inv |-> i,
                             ev |-> BuildDecisionEvent(request[i], response[i], actionStatus[i])])
    /\ ledger' = MarkApplied(ledger, Key(i)[1], Key(i)[2])
    /\ calls' = [calls EXCEPT ![i] = @ \o <<Call("log", request[i].message_id, 0, ""),
                                            Call("mark_applied", Key(i)[1], 0, "")>>]
    /\ result' = [result EXCEPT ![i] = FullResult(actionStatus[i], response[i])]
    /\ pc' = [pc EXCEPT ![i] = "returned"]
    /\ UNCHANGED <<unitVars, config, archived, kept, event, request, attempt, lastError,
                   received, origin, response, actionStatus, error, lookupAfterMark>>

\* self.idempotency_store.mark_applied(request.message_id, self.config.model_version)
Record(i) ==
    /\ pc[i] = "record"
    /\ ledger' = MarkApplied(ledger, Key(i)[1], Key(i)[2])
    /\ calls' = [calls EXCEPT ![i] = Append(@, Call("mark_applied", Key(i)[1], 0, ""))]
    /\ pc' = [pc EXCEPT ![i] = "telemetry"]
    /\ UNCHANGED <<unitVars, config, sink, archived, kept, event, request, attempt, lastError,
                   received, origin, response, actionStatus, result, error,
                   lookupAfterMark>>

\* Build and log the DecisionEvent, and return the result dictionary.
Telemetry(i) ==
    /\ pc[i] = "telemetry"
    /\ sink' = Append(sink, [inv |-> i,
                             ev |-> BuildDecisionEvent(request[i], response[i], actionStatus[i])])
    /\ calls' = [calls EXCEPT ![i] = Append(@, Call("log", request[i].message_id, 0, ""))]
    /\ result' = [result EXCEPT ![i] = FullResult(actionStatus[i], response[i])]
    /\ pc' = [pc EXCEPT ![i] = "returned"]
    /\ UNCHANGED <<unitVars, config, ledger, archived, kept, event, request, attempt, lastError,
                   received, origin, response, actionStatus, error,
                   lookupAfterMark>>

Step(i) ==
    \/ Validate(i)
    \/ DuplicateCheck(i)
    \/ DuplicateSkip(i)
    \/ RetryLoopEmpty(i)
    \/ ClassifyReturn(i)
    \/ ClassifyRaise(i)
    \/ Sleep(i)
    \/ ApplyShadow(i)
    \/ ApplyKeep(i)
    \/ ApplyArchive(i)
    \/ Compensate(i)
    \/ Record(i)
    \/ Telemetry(i)

\* Invocations run concurrently, interleaved at their calls on shared objects.
Next == \E i \in Inv : Step(i)

Spec == Init /\ [][Next]_vars

\* No invocation but i is running.
Alone(i) == \A j \in Inv \ {i} : Inactive(j)

\* Invocations run one after the other: every step belongs to the only running one.
NextSeq ==
    \E i \in Inv :
       \/ Alone(i) /\ Validate(i)
       \/ Alone(i) /\ DuplicateCheck(i)
       \/ Alone(i) /\ DuplicateSkip(i)
       \/ Alone(i) /\ RetryLoopEmpty(i)
       \/ Alone(i) /\ ClassifyReturn(i)
       \/ Alone(i) /\ ClassifyRaise(i)
       \/ Alone(i) /\ Sleep(i)
       \/ Alone(i) /\ ApplyShadow(i)
       \/ Alone(i) /\ ApplyKeep(i)
       \/ Alone(i) /\ ApplyArchive(i)
       \/ Alone(i) /\ Compensate(i)
       \/ Alone(i) /\ Record(i)
       \/ Alone(i) /\ Telemetry(i)

SpecSeq == Init /\ [][NextSeq]_vars


\* One invocation on a command object whose ledger holds the keys that earlier
\* invocations, of this process or of an earlier one, have marked.
InitOne ==
    /\ config \in Configs
    /\ \E marked \in SUBSET MessageIds :
          ledger = {<<m, config.model_version>> : m \in marked}
    /\ sink = <<>>
    /\ archived = [m \in MessageIds |-> 0]
    /\ kept = [m \in MessageIds |-> 0]
    /\ pc = [i \in Inv |-> "idle"]
    /\ event = [i \in Inv |-> GoodEvent("m1")]
    /\ request = [i \in Inv |-> NoRequest]
    /\ attempt = [i \in Inv |-> 0]
    /\ lastError = [i \in Inv |-> ""]
    /\ received = [i \in Inv |-> NoResponse]
    /\ origin = [i \in Inv |-> "none"]
    /\ response = [i \in Inv |-> NoResponse]
    /\ actionStatus = [i \in Inv |-> ""]
    /\ result = [i \in Inv |-> NoResult]
    /\ error = [i \in Inv |-> ""]
    /\ calls = [i \in Inv |-> <<>>]
    /\ lookupAfterMark = [i \in Inv |-> FALSE]
    /\ UnitsIdle
    /\ IoIdleBut("")

NextOne == Step(1)

\* The invocation goes on: each call it makes on the ledger, the inference
\* client, the sleep function, the action runtime and the sink returns or
\* raises, and the calling thread then takes its next step.
SpecOne == InitOne /\ [][NextOne]_vars /\ WF_vars(NextOne)

\* ------------------------------------------- run_with_retries on its own

\* Largest max_retries of a run (the smallest is -1).
RxMaxRetries == 3

\* Exceptions the operation raises.
RxErrors == {"InferenceClientError", "SchemaError", "ValueError"}

\* Values the operation returns.
RxValues == {"a", "b"}

\* base_backoff_ms of a run.
RxBackoffs == {DefaultBackoffMs, 50}

\* The configuration of a command that is not being executed.
IdleConfig == Config(FALSE, CanaryFull, TRUE, TRUE, 0)

\* run_with_retries is called: last_error = None, the loop is about to start.
RxStart(n, b) == [NoRun EXCEPT !.pc = "loop", !.max_retries = n, !.base_backoff_ms = b]

InitRetry ==
    /\ config = IdleConfig
    /\ PipelineFresh
    /\ rx \in {RxStart(n, b) : n \in (-1)..RxMaxRetries, b \in RxBackoffs}
    /\ gate = NoGate
    /\ reg = NoRegistration
    /\ canary = NoCanary
    /\ IoIdleBut("")

\* The for loop ends without a break: assert last_error is not None; raise last_error.
RunLoopEnds ==
    /\ rx.pc = "loop"
    /\ ~RetryLoopRuns(rx.attempt, rx.max_retries)
    /\ rx' = [rx EXCEPT !.pc = "raised",
                        !.raised = IF rx.last_error = "" THEN "AssertionError" ELSE rx.last_error]
    /\ UNCHANGED <<pipelineVars, ioVars, gate, reg, canary>>

\* return func()
RunFuncReturns ==
    /\ rx.pc = "loop"
    /\ RetryLoopRuns(rx.attempt, rx.max_retries)
    /\ \E v \in RxValues :
          rx' = [rx EXCEPT !.outcomes = Append(@, [ok |-> TRUE, v |-> v]),
                           !.value = v, !.pc = "returned"]
    /\ UNCHANGED <<pipelineVars, ioVars, gate, reg, canary>>

\* func() raises: last_error = exc, then break and raise last_error, or go on to sleep.
RunFuncRaises ==
    /\ rx.pc = "loop"
    /\ RetryLoopRuns(rx.attempt, rx.max_retries)
    /\ \E e \in RxErrors :
          rx' = IF RetryGivesUp(rx.attempt, rx.max_retries)
                THEN [rx EXCEPT !.outcomes = Append(@, [ok |-> FALSE, v |-> e]),
                                !.last_error = e, !.raised = e, !.pc = "raised"]
                ELSE [rx EXCEPT !.outcomes = Append(@, [ok |-> FALSE, v |-> e]),
                                !.last_error = e, !.pc = "sleep"]
    /\ UNCHANGED <<pipelineVars, ioVars, gate, reg, canary>>

\* sleep_fn(backoff), then the next value of attempt.
RunSleep ==
    /\ rx.pc = "sleep"
    /\ rx' = [rx EXCEPT !.sleeps = Append(@, Backoff(rx.base_backoff_ms, rx.attempt)),
                        !.attempt = @ + 1, !.pc = "loop"]
    /\ UNCHANGED <<pipelineVars, ioVars, gate, reg, canary>>

NextRetry ==
    \/ RunLoopEnds
    \/ RunFuncReturns
    \/ RunFuncRaises
    \/ RunSleep

SpecRetry == InitRetry /\ [][NextRetry]_vars

\* --------------------------------------- is_supported_version on its own

\* Largest number of tokens in a range.
MaxTokens == 2

\* str(n) for the numbers of the model.
Decimal(n) == IF n < 10 THEN <<DigitChars[n + 1]>> ELSE <<DigitChars[(n \div 10) + 1], DigitChars[(n % 10) + 1]>>

\* The text MAJOR.MINOR.PATCH of a triple.
VersionText(t) == Decimal(t[1]) \o <<".">> \o Decimal(t[2]) \o <<".">> \o Decimal(t[3])

\* Runtime versions: well-formed ones, given with their triple, and texts that
\* are not MAJOR.MINOR.PATCH.
GateVersions ==
    {[wf |-> TRUE, triple |-> <<a, b, c>>, text |-> VersionText(<<a, b, c>>)] :
        a \in {1, 2}, b \in {9, 10}, c \in {0, 1}}
      \cup {[wf |-> FALSE, triple |-> <<0, 0, 0>>, text |-> x] :
              x \in {<<"1", ".", "9">>, <<"1", ".", "9", ".", "x">>, <<>>}}

\* Range tokens: well-formed ones, given with operator and triple, and texts
\* with an unrecognized operator or a version that does not parse.
GateTokens ==
    {[wf |-> TRUE, op |-> Operators[k], triple |-> t, text |-> Operators[k] \o VersionText(t)] :
        k \in DOMAIN Operators, t \in {<<1, 10, 0>>, <<2, 0, 0>>, <<1, 9, 1>>}}
      \cup {[wf |-> FALSE, op |-> <<>>, triple |-> <<0, 0, 0>>, text |-> x] :
              x \in {<<"x">>, <<"=">> \o VersionText(<<1, 9, 0>>),
                     <<">", "=", "1", ".", "9">>,
                     <<"<", "=", ">">> \o VersionText(<<1, 9, 0>>)}}

\* Lists of at most MaxTokens tokens.
GateTokenLists == UNION {[1..n -> GateTokens] : n \in 0..MaxTokens}

\* ",".join of the tokens' texts.
RECURSIVE JoinTokens(_)
JoinTokens(toks) ==
    IF toks = <<>> THEN <<>>
    ELSE IF Len(toks) = 1 THEN toks[1].text
    ELSE toks[1].text \o <<",">> \o JoinTokens(Tail(toks))

InitGate ==
    /\ config = IdleConfig
    /\ PipelineFresh
    /\ rx = NoRun
    /\ reg = NoRegistration
    /\ canary = NoCanary
    /\ IoIdleBut("")
    /\ gate \in {[pc |-> "called", v |-> v, toks |-> toks, openclaw_version |-> v.text,
                  spec |-> JoinTokens(toks), outcome |-> ""] :
                    v \in GateVersions, toks \in GateTokenLists}

\* is_supported_version(openclaw_version, spec) returns or raises.
GateCheck ==
    /\ gate.pc = "called"
    /\ gate' = [gate EXCEPT !.pc = "done",
                            !.outcome = IsSupportedVersion(gate.openclaw_version, gate.spec)]
    /\ UNCHANGED <<pipelineVars, ioVars, rx, reg, canary>>

NextGate == GateCheck

SpecGate == InitGate /\ [][NextGate]_vars

\* ------------------------------------------------------ register on its own

\* PluginConfig.supported_openclaw_versions default, ">=1.8.0,<2.0.0".
DefaultRange ==
    <<">", "=">> \o VersionText(<<1, 8, 0>>) \o <<",">> \o <<"<">> \o VersionText(<<2, 0, 0>>)

\* What the host context declares as its version: nothing, or a text.
ContextVersions ==
    {[declared |-> FALSE, text |-> <<>>]}
      \cup {[declared |-> TRUE, text |-> x] :
              x \in {VersionText(<<1, 8, 2>>), VersionText(<<1, 10, 1>>),
                     VersionText(<<2, 1, 0>>), <<"1", ".", "8">>}}

\* supported_openclaw_versions of the plugin configuration.
ConfiguredRanges == {DefaultRange, <<"x">>, <<"<">> \o VersionText(<<2, 0, 0>>) \o <<",", "x">>}

\* idempotency_sqlite_path: not set, a path sqlite3 can open, one it cannot.
SqlitePaths == {"none", "openable", "unopenable"}

InitRegister ==
    /\ config = IdleConfig
    /\ PipelineFresh
    /\ rx = NoRun
    /\ gate = NoGate
    /\ canary = NoCanary
    /\ IoIdleBut("")
    /\ reg \in {[NoRegistration EXCEPT !.pc = "called", !.openclaw_version = v,
                                       !.conf_base_url = c, !.env_base_url = e,
                                       !.supported_openclaw_versions = r,
                                       !.idempotency_sqlite_path = q] :
                   v \in ContextVersions, c \in BOOLEAN, e \in BOOLEAN,
                   r \in ConfiguredRanges, q \in SqlitePaths}

\* register raises err.
RegRaise(err) == reg' = [reg EXCEPT !.pc = "raised", !.error = err]

\* PluginConfig.from_sources: ConfigError when neither the configuration nor the
\* environment gives inference_base_url; register re-raises it as
\* PluginRegistrationError.
RegBuildConfig ==
    /\ reg.pc = "called"
    /\ IF reg.conf_base_url \/ reg.env_base_url
       THEN reg' = [reg EXCEPT !.pc = "version", !.done = Append(@, "config")]
       ELSE RegRaise("PluginRegistrationError")
    /\ UNCHANGED <<pipelineVars, ioVars, rx, gate, canary>>

\* assert_supported_version(adapter.openclaw_version(), ...): the adapter raises
\* RuntimeError when the context declares no version, which the except clause
\* for CompatibilityError does not catch.
RegCheckVersion ==
    /\ reg.pc = "version"
    /\ IF ~reg.openclaw_version.declared
       THEN RegRaise("RuntimeError")
       ELSE IF AssertSupportedVersionOk(reg.openclaw_version.text, reg.supported_openclaw_versions)
       THEN reg' = [reg EXCEPT !.pc = "wire", !.done = Append(@, "version")]
       ELSE RegRaise("PluginRegistrationError")
    /\ UNCHANGED <<pipelineVars, ioVars, rx, gate, canary>>

\* The client, the ledger and the sink are built; SQLiteIdempotencyStore opens
\* its database in __post_init__, and sqlite3's error leaves register.
RegWire ==
    /\ reg.pc = "wire"
    /\ IF reg.idempotency_sqlite_path = "unopenable"
       THEN RegRaise("OperationalError")
       ELSE reg' = [reg EXCEPT !.pc = "register", !.done = Append(@, "wire")]
    /\ UNCHANGED <<pipelineVars, ioVars, rx, gate, canary>>

\* registry.register_command("email.triage.v1", command.execute); return command.
RegRegisterCommand ==
    /\ reg.pc = "register"
    /\ reg' = [reg EXCEPT !.pc = "returned", !.commands = Append(@, "email.triage.v1"),
                          !.done = Append(@, "register_command")]
    /\ UNCHANGED <<pipelineVars, ioVars, rx, gate, canary>>

NextRegister ==
    \/ RegBuildConfig
    \/ RegCheckVersion
    \/ RegWire
    \/ RegRegisterCommand

SpecRegister == InitRegister /\ [][NextRegister]_vars

\* ------------------------------------------------- _is_in_canary on its own

\* Message identifiers, with buckets 53, 9, 34, 0 and 99.
CanaryIds == {"m1", "m2", "m3", "msg-323", "msg-196"}

\* canary_percent, in tenths of a percent.
CanaryPercents == {-10, 0, 5, 10, 90, 95, 100, 340, 349, 350, 539, 540, 990, 999, CanaryFull, 1005}

InitCanary ==
    /\ config \in {[Config(s, 0, a, TRUE, 0) EXCEPT !.canary_percent = p] :
                      s \in BOOLEAN, a \in BOOLEAN, p \in CanaryPercents}
    /\ PipelineFresh
    /\ rx = NoRun
    /\ gate = NoGate
    /\ reg = NoRegistration
    /\ IoIdleBut("")
    /\ canary \in {[NoCanary EXCEPT !.pc = "called", !.message_id = m] : m \in CanaryIds}

\* self._is_in_canary(message_id) returns.
CanaryCheck ==
    /\ canary.pc = "called"
    /\ canary' = [canary EXCEPT !.pc = "done", !.result = IsInCanary(config, canary.message_id)]
    /\ UNCHANGED <<pipelineVars, ioVars, rx, gate, reg>>

\* The operator raises canary_percent (or leaves it) and _is_in_canary is
\* called again for the same message; the earlier percentage and result are
\* kept for comparison.
CanaryRaise ==
    /\ canary.pc = "done"
    /\ canary.before = <<>>
    /\ \E p2 \in CanaryPercents :
          /\ p2 >= config.canary_percent
          /\ config' = [config EXCEPT !.canary_percent = p2]
          /\ canary' = [canary EXCEPT
                 !.before = <<[canary_percent |-> config.canary_percent,
                               result |-> canary.result]>>,
                 !.result = IsInCanary(config', canary.message_id)]
    /\ UNCHANGED <<ledger, sink, archived, kept, pc, event, request, attempt, lastError,
                   received, origin, response, actionStatus, result, error, calls,
                   lookupAfterMark, rx, gate, reg, ioVars>>

NextCanary == CanaryCheck \/ CanaryRaise

SpecCanary == InitCanary /\ [][NextCanary]_vars

\* ------------------------------------------- build_decision_event on its own

BodyWithAddress ==
    <<"m", "a", "i", "l", " ", "b", "o", "b", "@", "e", "x", "a", "m", "p", "l", "e",
      ".", "c", "o", "m", " ", "n", "o", "w">>

BodyWithNumber ==
    <<"p", "i", "n", " ", "1", "2", "3", "4", "5", " ", "o", "k">>

BodyPlain ==
    <<"s", "e", "e", " ", "y", "o", "u", " ", "a", "t", " ", "1", "0">>

BodyEscapedAddress ==
    <<"x", " ", "\\", "b", "a", "l", "@", "e", "x", "\\", ".", "c", "o", "m", "\\",
      "b", " ", "y">>

BodyEscapedLetters ==
    <<"x", " ", "\\", "b", "\\", "d", "d", "d", "d", "\\", "b", " ", "y">>

\* n characters of filling.
Pad(n) == [k \in 1..n |-> "x"]

\* Body texts: with an address, with a run of five digits, with neither, with
\* the texts the two patterns match as they are written, empty (or None), and
\* longer than max_chars with digits and an address across and after the cut.
Bodies ==
    {BodyWithAddress, BodyWithNumber, BodyPlain, BodyEscapedAddress, BodyEscapedLetters,
     <<>>,
     Pad(SnippetMaxChars - 2) \o BodyWithNumber,
     Pad(SnippetMaxChars - 9) \o BodyWithNumber,
     Pad(SnippetMaxChars + 1) \o BodyWithAddress}

SenderNamed ==
    <<"B", "o", "b", " ", "<", "b", "o", "b", "@", "E", "x", "a", "m", "p", "l", "e",
      ".", "C", "O", "M", ">">>

SenderBare ==
    <<" ", "a", "l", "@", "w", "h", "y", ".", "c", "o", "m", " ">>

SenderNoAddress ==
    <<"b", "o", "b">>

SenderTwoAts ==
    <<"a", "@", "b", "@", "C", ".", "c", "o", "m">>

Senders == {SenderNamed, SenderBare, SenderNoAddress, SenderTwoAts}

SubjectText ==
    <<"R", "e", ":", " ", "p", "a", "y">>

Subjects == {<<>>, SubjectText}

ThreadIds == {<<>>, <<"t", "1">>}

InitRedact ==
    /\ config = IdleConfig
    /\ PipelineFresh
    /\ UnitsIdle
    /\ IoIdleBut("redact")
    /\ redact \in {[NoRedact EXCEPT !.pc = "called", !.sender = f, !.subject = s,
                                      !.thread_id = t, !.body_text = b] :
                       f \in Senders, s \in Subjects, t \in ThreadIds, b \in Bodies}

\* build_decision_event returns the event.
BuildEvent ==
    /\ redact.pc = "called"
    /\ redact' = [redact EXCEPT !.pc = "done", !.event = RedactionFields(redact)]
    /\ UNCHANGED <<pipelineVars, rx, gate, reg, canary>>
    /\ IoUnchangedBut("redact")

NextRedact == BuildEvent

SpecRedact == InitRedact /\ [][NextRedact]_vars

\* ------------------------------- JsonlDecisionSink.log and load_decisions

\* The number of log calls on one file.
MaxLogCalls == 3

\* The events logged, by the fields load_decisions reads.
LoggedEvents ==
    {[message_id |-> m, action_status |-> a] : m \in {"m1", "m2"}, a \in {"archived", "kept"}}

\* for line in f: the lines of the text, split at newline characters.
FileLines(text) == Split(text, "\n")

\* line.strip() is empty.
Blank(line) == \A k \in DOMAIN line : line[k] \in {" ", "\n"}

\* json.loads accepts the line: one object, with white space around it at most.
JsonLoadsOk(line) ==
    LET t == StripChars(line)
    IN  Len(t) = 4 /\ t[1] = "{" /\ t[4] = "}"

\* The DecisionEvent load_decisions builds from the object of a line.
JsonLoads(line) ==
    LET t == StripChars(line)
    IN  [message_id |-> t[2], action_status |-> t[3]]

\* The lines of the text that are not blank, in order.
RECURSIVE NonBlank(_)
NonBlank(lines) ==
    IF lines = <<>> THEN <<>>
    ELSE IF Blank(lines[1]) THEN NonBlank(Tail(lines))
         ELSE <<lines[1]>> \o NonBlank(Tail(lines))

\* A sink whose file is absent, or present and empty.
InitSink ==
    /\ config = IdleConfig
    /\ PipelineFresh
    /\ UnitsIdle
    /\ IoIdleBut("jsonl")
    /\ jsonl \in {[NoFile EXCEPT !.pc = "open", !.exists = e] : e \in BOOLEAN}

\* JsonlDecisionSink.log(event): the directory is made, the file opened for
\* appending (and so created), the object written.
SinkLog ==
    /\ jsonl.pc = "open"
    /\ Len(jsonl.logged) < MaxLogCalls
    /\ \E ev \in LoggedEvents :
          jsonl' = [jsonl EXCEPT !.exists = TRUE,
                                 !.text = LogAppends(jsonl.text, ev),
                                 !.logged = Append(jsonl.logged, ev)]
    /\ UNCHANGED <<pipelineVars, rx, gate, reg, canary>>
    /\ IoUnchangedBut("jsonl")

\* load_decisions(path) returns the events of the lines.
LoadDecisionsReturns ==
    /\ jsonl.pc = "open"
    /\ jsonl.exists
    /\ \A k \in DOMAIN NonBlank(FileLines(jsonl.text)) :
          JsonLoadsOk(NonBlank(FileLines(jsonl.text))[k])
    /\ jsonl' = [jsonl EXCEPT !.pc = "loaded",
                               !.loaded = [k \in DOMAIN NonBlank(FileLines(jsonl.text)) |->
                                              JsonLoads(NonBlank(FileLines(jsonl.text))[k])]]
    /\ UNCHANGED <<pipelineVars, rx, gate, reg, canary>>
    /\ IoUnchangedBut("jsonl")

\* load_decisions(path) raises: the file is absent, or json.loads rejects a line.
LoadDecisionsRaises ==
    /\ jsonl.pc = "open"
    /\ \/ /\ ~jsonl.exists
          /\ jsonl' = [jsonl EXCEPT !.pc = "failed", !.error = "FileNotFoundError"]
       \/ /\ jsonl.exists
          /\ \E k \in DOMAIN NonBlank(FileLines(jsonl.text)) :
                ~JsonLoadsOk(NonBlank(FileLines(jsonl.text))[k])
          /\ jsonl' = [jsonl EXCEPT !.pc = "failed", !.error = "JSONDecodeError"]
    /\ UNCHANGED <<pipelineVars, rx, gate, reg, canary>>
    /\ IoUnchangedBut("jsonl")

NextSink == SinkLog \/ LoadDecisionsReturns \/ LoadDecisionsRaises

SpecSink == InitSink /\ [][NextSink]_vars

\* ------------------------------------------- the idempotency stores alone

\* The number of calls made on the stores.
MaxLedgerOps == 4

\* (message_id, decision_version) pairs.
StoreKeys == {<<"m1", "v1">>, <<"m1", "v2">>, <<"m2", "v1">>}

\* One call on a store: the variant, the method, the key, what it returned
\* ("" for None), and the clock, the key set and the rows it found.
StoreCall(variant, op, key, ret) ==
    [variant |-> variant, op |-> op, key |-> key, ret |-> ret,
     at |-> store.now, seen |-> store.seen, rows |-> store.rows]

\* Both stores after construction: no key, the table created and empty.
InitLedger ==
    /\ config = IdleConfig
    /\ PipelineFresh
    /\ UnitsIdle
    /\ IoIdleBut("store")
    /\ store = [NoStore EXCEPT !.pc = "open"]

\* InMemoryIdempotencyStore.is_applied(message_id, decision_version)
MemIsApplied ==
    /\ store.pc = "open" /\ Len(store.calls) < MaxLedgerOps
    /\ \E key \in StoreKeys :
          store' = [store EXCEPT
             !.now = @ + 1,
             !.calls = Append(@, StoreCall("memory", "is_applied", key,
                                           IsApplied(store.seen, key[1], key[2])))]
    /\ UNCHANGED <<pipelineVars, rx, gate, reg, canary>>
    /\ IoUnchangedBut("store")

\* InMemoryIdempotencyStore.mark_applied(message_id, decision_version)
MemMarkApplied ==
    /\ store.pc = "open" /\ Len(store.calls) < MaxLedgerOps
    /\ \E key \in StoreKeys :
          store' = [store EXCEPT
             !.now = @ + 1,
             !.seen = MarkApplied(@, key[1], key[2]),
             !.calls = Append(@, StoreCall("memory", "mark_applied", key, ""))]
    /\ UNCHANGED <<pipelineVars, rx, gate, reg, canary>>
    /\ IoUnchangedBut("store")

\* SQLiteIdempotencyStore.is_applied(message_id, decision_version), under the lock.
SqlIsAppliedCall ==
    /\ store.pc = "open" /\ Len(store.calls) < MaxLedgerOps
    /\ \E key \in StoreKeys :
          store' = [store EXCEPT
             !.now = @ + 1,
             !.calls = Append(@, StoreCall("sqlite", "is_applied", key,
                                           SqlIsApplied(store.rows, key[1], key[2])))]
    /\ UNCHANGED <<pipelineVars, rx, gate, reg, canary>>
    /\ IoUnchangedBut("store")

\* SQLiteIdempotencyStore.mark_applied(message_id, decision_version), under the
\* lock: applied_at is the time of the call.
SqlMarkAppliedCall ==
    /\ store.pc = "open" /\ Len(store.calls) < MaxLedgerOps
    /\ \E key \in StoreKeys :
          store' = [store EXCEPT
             !.now = @ + 1,
             !.rows = SqlMarkApplied(@, key[1], key[2], store.now),
             !.calls = Append(@, StoreCall("sqlite", "mark_applied", key, ""))]
    /\ UNCHANGED <<pipelineVars, rx, gate, reg, canary>>
    /\ IoUnchangedBut("store")

NextLedger == MemIsApplied \/ MemMarkApplied \/ SqlIsAppliedCall \/ SqlMarkAppliedCall

SpecLedger == InitLedger /\ [][NextLedger]_vars

\* ------------------------------- the construction of EmailTriageResponse

\* Arguments of the constructor: decisions, confidences and latencies in and
\* out of their ranges.
ArgDecisions == {"archive", "needs_attention", "spam", "", "ARCHIVE"}

ArgConfidences ==
    {Num(-1), Num(0), Num(500), Num(995), Num(1000), Num(1001), NaN, Inf, NegInf}

ArgLatencies == {-1, 0, 12}

\* archive_confidence_threshold of the command.
ArgThresholds == {0, DefaultThreshold, 1000}

\* EmailTriageResponse(...) with the fields of r and the given confidence:
\* __post_init__ runs, and the object exists if it raises nothing.
Constructs(kind, r, confidence, next) ==
    IF PostInitError(r.decision, confidence, r.latency_ms) = ""
    THEN resp' = [resp EXCEPT !.pc = next,
                              !.objects = Append(@, [kind |-> kind, r |-> r])]
    ELSE resp' = [resp EXCEPT !.pc = "failed",
                              !.error = PostInitError(r.decision, confidence, r.latency_ms)]

InitResponse ==
    /\ config \in {[IdleConfig EXCEPT !.archive_confidence_threshold = t] : t \in ArgThresholds}
    /\ PipelineFresh
    /\ UnitsIdle
    /\ IoIdleBut("resp")
    /\ resp \in {[NoConstruction EXCEPT !.pc = "args", !.decision = d, !.confidence = c,
                                          !.latency_ms = l] :
                     d \in ArgDecisions, c \in ArgConfidences, l \in ArgLatencies}

\* The response of the endpoint is constructed from the arguments.
ConstructReceived ==
    /\ resp.pc = "args"
    /\ Constructs("received",
                  Response(resp.decision, resp.confidence.v, "v1", Reasoning("safe", "", 0, 0),
                           "", "v1", DefaultThreshold, resp.latency_ms),
                  resp.confidence, "received")
    /\ UNCHANGED <<pipelineVars, rx, gate, reg, canary>>
    /\ IoUnchangedBut("resp")

\* execute's threshold check on the received response: the downgraded response
\* is a new object.
ConstructDowngraded ==
    /\ resp.pc = "received"
    /\ ThresholdRecheck(config, resp.objects[1].r) # resp.objects[1].r
    /\ Constructs("downgraded", ThresholdRecheck(config, resp.objects[1].r),
                  Num(resp.objects[1].r.confidence), "rechecked")
    /\ UNCHANGED <<pipelineVars, rx, gate, reg, canary>>
    /\ IoUnchangedBut("resp")

\* execute synthesizes the response of the fail-open path, the endpoint's
\* response having been rejected.
ConstructFailOpen ==
    /\ resp.pc = "failed"
    /\ Constructs("fail_open", FailOpenResponse(config, "InferenceClientError"),
                  Num(0), "synthesized")
    /\ UNCHANGED <<pipelineVars, rx, gate, reg, canary>>
    /\ IoUnchangedBut("resp")

\* execute synthesizes the response of the duplicate path.
ConstructDuplicate ==
    /\ resp.pc = "args"
    /\ Constructs("duplicate", DuplicateResponse(config), Num(0), "synthesized")
    /\ UNCHANGED <<pipelineVars, rx, gate, reg, canary>>
    /\ IoUnchangedBut("resp")

NextResponse ==
    ConstructReceived \/ ConstructDowngraded \/ ConstructFailOpen \/ ConstructDuplicate

SpecResponse == InitResponse /\ [][NextResponse]_vars

\* ------------------------------------------------------ classify on its own

\* A payload the endpoint answers with that from_dict accepts.
GoodPayload ==
    [decision |-> Str("archive"), confidence |-> RawNum(999), threshold_used |-> RawNum(995),
     latency_ms |-> RawNum(10), source |-> Str("v1"), model_version |-> Str("v1")]

\* Payloads: the good one, and ones with one field missing or malformed.
Payloads ==
    {GoodPayload}
      \cup {[GoodPayload EXCEPT !.decision = x] : x \in {NoneV, IntV, Str(""), Str("spam")}}
      \cup {[GoodPayload EXCEPT !.source = x] : x \in {NoneV, Str("  ")}}
      \cup {[GoodPayload EXCEPT !.model_version = x] : x \in {NoneV, IntV}}
      \cup {[GoodPayload EXCEPT !.confidence = x] :
               x \in {RawAbsent, RawNull, RawText, NaN, Inf, RawNum(1001)}}
      \cup {[GoodPayload EXCEPT !.latency_ms = x] :
               x \in {RawAbsent, RawNull, RawText, NaN, Inf, NegInf, RawNum(-1)}}
      \cup {[GoodPayload EXCEPT !.threshold_used = x] : x \in {RawText, Inf}}

\* What the endpoint and the network do to the one request.
InitClient ==
    /\ config = IdleConfig
    /\ PipelineFresh
    /\ UnitsIdle
    /\ IoIdleBut("client")
    /\ client \in
          {[NoClassify EXCEPT !.pc = "called", !.tls = x, !.transport = t, !.status = c,
                              !.body = b, !.json = j, !.payload = q] :
             x \in {"none", "configured", "unreadable_file"},
             t \in {"connected", "refused", "dns_failure", "timeout", "disconnected"},
             c \in {200, 404, 500},
             b \in {"utf8", "not_utf8", "truncated"},
             j \in {"object", "malformed", "not_object"},
             q \in Payloads}

\* classify(triage_request) returns the response.
ClassifyReturns ==
    /\ client.pc = "called"
    /\ ClassifyError(client) = ""
    /\ client' = [client EXCEPT !.pc = "returned", !.posts = ClassifyPosts(client),
                                 !.returned = ResponseFromDict(client.payload)]
    /\ UNCHANGED <<pipelineVars, rx, gate, reg, canary>>
    /\ IoUnchangedBut("client")

\* classify(triage_request) raises.
ClassifyRaises ==
    /\ client.pc = "called"
    /\ ClassifyError(client) # ""
    /\ client' = [client EXCEPT !.pc = "raised", !.posts = ClassifyPosts(client),
                                 !.error = ClassifyError(client)]
    /\ UNCHANGED <<pipelineVars, rx, gate, reg, canary>>
    /\ IoUnchangedBut("client")

NextClient == ClassifyReturns \/ ClassifyRaises

SpecClient == InitClient /\ [][NextClient]_vars

\* ------------------------------------- the round trip of EmailTriageRequest

\* Wall-clock times, in minutes: 12:00 and 17:30.
Walls == {12 * 60, 17 * 60 + 30}

\* Dates of the payload: strings with and without a zone, datetime objects
\* with and without tzinfo, and values that are rejected.
PayloadDates ==
    {DateText(w, z) : w \in Walls, z \in {"", "Z", "+00:00", "+05:30", "garbage"}}
      \cup {DateObject(Datetime(w, FALSE, 0)) : w \in Walls}
      \cup {DateObject(Datetime(w, TRUE, o)) : w \in Walls, o \in {0, 330}}
      \cup {DateInt}

\* The event of the test suite with the optional fields of the model absent.
BasePayload ==
    [request_id |-> Str("r1"), message_id |-> Str("m1"), thread_id |-> Absent,
     sender |-> Str("promo@example.com"), to |-> Str("me@example.com"),
     subject |-> Absent, date |-> DateText(12 * 60, "Z"), gmail_labels |-> Absent,
     is_read |-> Absent]

RequestPayloads ==
    {[BasePayload EXCEPT !.date = d, !.thread_id = t, !.subject = s, !.gmail_labels = l,
                         !.is_read = b] :
        d \in PayloadDates,
        t \in {Absent, NoneV, Str("t1")},
        s \in {Absent, Str(""), Str("Sale"), NoneV},
        l \in {Absent, ListV(<<>>), ListV(<<"INBOX", "PROMO">>), Str("INBOX")},
        b \in {Absent, BoolV("True"), BoolV("False")}}

InitRequest ==
    /\ config = IdleConfig
    /\ PipelineFresh
    /\ UnitsIdle
    /\ IoIdleBut("req")
    /\ req \in {[NoRoundTrip EXCEPT !.pc = "payload", !.payload = q] : q \in RequestPayloads}

\* EmailTriageRequest.from_dict(payload)
RequestBuilt ==
    /\ req.pc = "payload"
    /\ IF RequestFromDictError(req.payload) = ""
       THEN req' = [req EXCEPT !.pc = "request", !.request = RequestFromDict(req.payload)]
       ELSE req' = [req EXCEPT !.pc = "rejected", !.error = RequestFromDictError(req.payload)]
    /\ UNCHANGED <<pipelineVars, rx, gate, reg, canary>>
    /\ IoUnchangedBut("req")

\* request.to_dict()
RequestSerialized ==
    /\ req.pc = "request"
    /\ req' = [req EXCEPT !.pc = "dict", !.out = RequestToDict(req.request)]
    /\ UNCHANGED <<pipelineVars, rx, gate, reg, canary>>
    /\ IoUnchangedBut("req")

\* EmailTriageRequest.from_dict(request.to_dict())
RequestRebuilt ==
    /\ req.pc = "dict"
    /\ IF RequestFromDictError(req.out) = ""
       THEN req' = [req EXCEPT !.pc = "again", !.again = RequestFromDict(req.out)]
       ELSE req' = [req EXCEPT !.pc = "rejected", !.error = RequestFromDictError(req.out)]
    /\ UNCHANGED <<pipelineVars, rx, gate, reg, canary>>
    /\ IoUnchangedBut("req")

NextRequest == RequestBuilt \/ RequestSerialized \/ RequestRebuilt

SpecRequest == InitRequest /\ [][NextRequest]_vars

\* ------------------------------------------------ restore_snapshot on its own

MaxEntries == 3

\* A path is the sequence of its parts, as Path.parts gives them; the root of
\* an absolute path is its first part.
Root == "/"

\* _normalize_target_dest(source_path, target_root), as a path below target_root
NormalizeTargetDest(source_path) ==
    IF source_path # <<>> /\ Head(source_path) = Root THEN Tail(source_path) ELSE source_path

\* The paths below the target root that the manifests of the model name, and
\* what is at each: nothing, a file or a directory of the target's own, or a
\* file or a directory that a restore has copied there.
TargetPaths == {<<"etc">>, <<"etc", "a.toml">>, <<"etc", "plugins">>}

PathParent(path) == SubSeq(path, 1, Len(path) - 1)

PathExists(tree, path) == path = <<>> \/ tree[path] # "absent"

PathIsDir(tree, path) == path = <<>> \/ tree[path] \in {"dir", "restored dir"}

PathIsFile(tree, path) == path # <<>> /\ tree[path] \in {"file", "restored file"}

\* The files and directories under <snapshot>/files.
SnapshotFiles == {<<"etc", "a.toml">>, <<"etc", "plugins">>}

\* One entry of the loop of restore_snapshot: acc holds the target tree, the
\* actions list and the error raised ("" while none is).
RestoreEntry(entry, include_set, apply, acc) ==
    IF entry.status # "backed_up" THEN acc
    ELSE IF include_set # {} /\ entry.source_path \notin include_set THEN acc
    ELSE IF entry.kind \notin {"file", "dir"}
    THEN [acc EXCEPT !.error = "BackupError: Invalid entry in metadata"]
    ELSE IF entry.storage_rel_path \notin SnapshotFiles
    THEN [acc EXCEPT !.error = "BackupError: Snapshot data missing for entry"]
    ELSE
      LET dest == NormalizeTargetDest(entry.source_path)
          action == [source |-> <<"files">> \o entry.storage_rel_path, destination |-> dest,
                     kind |-> entry.kind, applied |-> apply]
          done == [acc EXCEPT !.actions = Append(@, action)]
      IN  IF ~apply THEN done
          ELSE IF entry.kind = "file" /\ PathExists(acc.tree, dest) /\ PathIsDir(acc.tree, dest)
          THEN [acc EXCEPT !.error = "BackupError: Cannot restore file over directory"]
          ELSE IF entry.kind = "dir" /\ PathExists(acc.tree, dest) /\ PathIsFile(acc.tree, dest)
          THEN [acc EXCEPT !.error = "BackupError: Cannot restore directory over file"]
          ELSE IF PathIsFile(acc.tree, PathParent(dest))
          THEN [acc EXCEPT !.error = "FileExistsError"]
          ELSE
            LET made == IF PathExists(acc.tree, PathParent(dest)) THEN acc.tree
                        ELSE [acc.tree EXCEPT ![PathParent(dest)] = "dir"]
                copied == [made EXCEPT ![dest] = IF entry.kind = "file" THEN "restored file"
                                                  ELSE "restored dir"]
            IN  [done EXCEPT !.tree = copied]

\* restore_snapshot(snapshot_dir, target_root, apply, include_source_paths) on a
\* snapshot whose metadata.json holds these entries; the loop stops at the
\* first error, with the tree and the actions as they are then.
RECURSIVE RestoreLoop(_, _, _, _)
RestoreLoop(entries, include_set, apply, acc) ==
    IF entries = <<>> \/ acc.error # "" THEN acc
    ELSE RestoreLoop(Tail(entries), include_set, apply,
                     RestoreEntry(Head(entries), include_set, apply, acc))

RestoreSnapshot(entries, include_set, tree, apply) ==
    RestoreLoop(entries, include_set, apply, [tree |-> tree, actions |-> <<>>, error |-> ""])

\* The entries create_snapshot writes (backed up as a file, as a directory, and
\* missing), and entries of a manifest that was edited or whose data is gone.
ManifestEntry(status, source_path, kind, storage_rel_path) ==
    [status |-> status, source_path |-> source_path, kind |-> kind,
     storage_rel_path |-> storage_rel_path]

ManifestEntries ==
    {ManifestEntry("backed_up", <<Root, "etc", "a.toml">>, "file", <<"etc", "a.toml">>),
     ManifestEntry("backed_up", <<Root, "etc", "plugins">>, "dir", <<"etc", "plugins">>),
     ManifestEntry("missing", <<Root, "etc", "missing.conf">>, "", <<>>),
     ManifestEntry("missing", <<Root, "etc", "plugins">>, "dir", <<"etc", "plugins">>),
     ManifestEntry("backed_up", <<Root, "etc", "a.toml">>, "symlink", <<"etc", "a.toml">>),
     ManifestEntry("backed_up", <<Root, "etc", "b.toml">>, "file", <<"etc", "b.toml">>)}

Manifests ==
    UNION {[1..n -> ManifestEntries] : n \in 1..MaxEntries}

IncludeSets == {{}, {<<Root, "etc", "a.toml">>}, {<<Root, "etc", "plugins">>}}

\* The target trees: a path exists only in a directory.
TargetTrees ==
    {t \in [TargetPaths -> {"absent", "file", "dir"}] :
        \A p \in TargetPaths :
            (Len(p) > 1 /\ t[p] # "absent") => t[PathParent(p)] = "dir"}

InitRestore ==
    /\ config = IdleConfig
    /\ PipelineFresh
    /\ UnitsIdle
    /\ IoIdleBut("restore")
    /\ restore \in {[NoRestore EXCEPT !.pc = "snapshot", !.entries = e, !.include = i,
                                      !.target = t] :
                       e \in Manifests, i \in IncludeSets, t \in TargetTrees}

\* restore_snapshot(..., apply=False); the tree it leaves is the target from
\* then on.
RestoreDryRun ==
    /\ restore.pc = "snapshot"
    /\ LET r == RestoreSnapshot(restore.entries, restore.include, restore.target, FALSE)
       IN  restore' = [restore EXCEPT !.pc = "previewed", !.dry = r]
    /\ UNCHANGED <<pipelineVars, rx, gate, reg, canary>>
    /\ IoUnchangedBut("restore")

\* restore_snapshot(..., apply=True) with the same snapshot and include filter
RestoreApply ==
    /\ restore.pc = "previewed"
    /\ LET r == RestoreSnapshot(restore.entries, restore.include, restore.dry.tree, TRUE)
       IN  restore' = [restore EXCEPT !.pc = "applied", !.applying = r]
    /\ UNCHANGED <<pipelineVars, rx, gate, reg, canary>>
    /\ IoUnchangedBut("restore")

NextRestore == RestoreDryRun \/ RestoreApply

SpecRestore == InitRestore /\ [][NextRestore]_vars

\* ------------------------------------------------ the rollback evaluator

MaxDecisions == 2
MaxCorrections == 2

\* Timestamps are instants in hours; the threshold and the rate are in
\* thousandths.  The events are those of well-formed files, one JSON object
\* a line.
LatestTimestamp(events) ==
    CHOOSE t \in {events[k].timestamp : k \in 1..Len(events)} :
        \A k \in 1..Len(events) : events[k].timestamp <= t

\* now - timedelta(hours=window_hours)
Cutoff(decisions, window_hours) == LatestTimestamp(decisions) - window_hours

ArchivedInWindow(decisions, cutoff) ==
    {k \in 1..Len(decisions) :
        decisions[k].timestamp >= cutoff /\ decisions[k].action_status = "archived"}

ArchivedIds(decisions, cutoff) ==
    {decisions[k].message_id : k \in ArchivedInWindow(decisions, cutoff)}

ConfirmedFp(decisions, corrections, cutoff) ==
    {k \in 1..Len(corrections) :
        /\ corrections[k].timestamp >= cutoff
        /\ corrections[k].message_id \in ArchivedIds(decisions, cutoff)}

\* fp_rate > rollback_threshold, the rate being confirmed / archived, or 0.0
\* when nothing was archived
RollbackTriggered(decisions, corrections, cutoff, rollback_threshold) ==
    LET total_archived == Cardinality(ArchivedInWindow(decisions, cutoff))
        confirmed_fp == Cardinality(ConfirmedFp(decisions, corrections, cutoff))
    IN  IF total_archived > 0
        THEN confirmed_fp * 1000 > rollback_threshold * total_archived
        ELSE 0 > rollback_threshold

EnvLines ==
    <<"EMAIL_TRIAGE_ARCHIVE_ENABLED=false", "EMAIL_TRIAGE_FAIL_OPEN=true",
      "EMAIL_TRIAGE_BLOCKLIST_ENABLED=true", "EMAIL_TRIAGE_LEGACY_RULES_ENABLED=false",
      "EMAIL_TRIAGE_ENGINE=v1">>

DecisionLines ==
    {[timestamp |-> t, message_id |-> m.id, action_status |-> m.s] :
        t \in {0, 30},
        m \in {[id |-> "m1", s |-> "archived"], [id |-> "m1", s |-> "kept_inbox"],
               [id |-> "m2", s |-> "archived"]}}

CorrectionLines ==
    {[timestamp |-> 0, message_id |-> "m1"], [timestamp |-> 10, message_id |-> "m1"],
     [timestamp |-> 40, message_id |-> "m1"], [timestamp |-> 10, message_id |-> "m2"]}

InitRollback ==
    /\ config = IdleConfig
    /\ PipelineFresh
    /\ UnitsIdle
    /\ IoIdleBut("rollback")
    /\ rollback \in
          {[NoEvaluation EXCEPT !.pc = "files", !.decisions = d, !.corrections = c,
                                !.rollback_threshold = th, !.window_hours = 24,
                                !.write_env = w] :
              d \in UNION {[1..n -> DecisionLines] : n \in 0..MaxDecisions},
              c \in UNION {[1..n -> CorrectionLines] : n \in 0..MaxCorrections},
              th \in {-500, 500, 1000},
              w \in BOOLEAN}

\* main() on a decisions file without events
MainNoDecisions ==
    /\ rollback.pc = "files"
    /\ rollback.decisions = <<>>
    /\ rollback' = [rollback EXCEPT !.pc = "reported",
                                    !.report = [ok |-> TRUE, reason |-> "no decisions"]]
    /\ UNCHANGED <<pipelineVars, rx, gate, reg, canary>>
    /\ IoUnchangedBut("rollback")

\* main() on a decisions file with events
MainEvaluates ==
    /\ rollback.pc = "files"
    /\ rollback.decisions # <<>>
    /\ LET cutoff == Cutoff(rollback.decisions, rollback.window_hours)
           triggered == RollbackTriggered(rollback.decisions, rollback.corrections, cutoff,
                                          rollback.rollback_threshold)
           written == triggered /\ rollback.write_env
       IN  rollback' =
              [rollback EXCEPT
                 !.pc = "reported",
                 !.report =
                    [ok |-> TRUE, reason |-> "", cutoff |-> cutoff,
                     total_archived |->
                        Cardinality(ArchivedInWindow(rollback.decisions, cutoff)),
                     confirmed_fp |->
                        Cardinality(ConfirmedFp(rollback.decisions, rollback.corrections,
                                                cutoff)),
                     rollback_triggered |-> triggered,
                     env_override_written |-> written],
                 !.env_file = IF written THEN EnvLines ELSE @]
    /\ UNCHANGED <<pipelineVars, rx, gate, reg, canary>>
    /\ IoUnchangedBut("rollback")

NextRollback == MainNoDecisions \/ MainEvaluates

SpecRollback == InitRollback /\ [][NextRollback]_vars

\* ------------------------------------------- PluginConfig.from_sources

\* The strings of this part are sequences of characters.
TrueWords ==
    {<<"1">>, <<"t", "r", "u", "e">>, <<"y", "e", "s">>, <<"y">>, <<"o", "n">>}

FalseWords ==
    {<<"0">>, <<"f", "a", "l", "s", "e">>, <<"n", "o">>, <<"n">>, <<"o", "f", "f">>}

\* str.strip() on a text whose only whitespace is the space.
StripText(s) ==
    LET inked == {k \in DOMAIN s : s[k] # " "}
    IN  IF inked = {} THEN <<>> ELSE SubSeq(s, Smallest(inked), Largest(inked))

\* _parse_bool(value, default) returns default: value is None, or neither a
\* bool nor a string, or a string that is none of the ten words.
ParseBoolUsesDefault(value) ==
    IF value.t \in {"absent", "none"} THEN TRUE
    ELSE IF value.t = "bool" THEN FALSE
    ELSE IF value.t # "str" THEN TRUE
    ELSE Lower(StripText(value.v)) \notin (TrueWords \cup FalseWords)

\* _parse_bool(value, default)
ParseBool(value, default) ==
    IF ParseBoolUsesDefault(value) THEN default
    ELSE IF value.t = "bool" THEN value.v = "True"
    ELSE Lower(StripText(value.v)) \in TrueWords

\* env.get(NAME, conf.get(field)): the variable when it is set, otherwise the
\* configuration object's value, None when that is absent too.
EnvGet(env_value, conf_value) ==
    IF env_value.t # "absent" THEN env_value
    ELSE IF conf_value.t = "absent" THEN NoneV
    ELSE conf_value

\* _parse_float(value, default): None and what float() rejects give the default.
ParseFloat(raw, default) ==
    IF raw.k \in {"num", "nan", "inf", "-inf"} THEN raw ELSE Num(default)

\* max(0.0, min(100.0, canary_percent)), in tenths of a percent: min and max
\* return their first argument unless the second compares smaller (larger),
\* which NaN never does.
ClampCanary(x) ==
    LET low == IF x.k = "-inf" \/ (x.k = "num" /\ x.v < CanaryFull) THEN x ELSE Num(CanaryFull)
    IN  IF low.k = "num" /\ low.v > 0 THEN low ELSE Num(0)

\* PluginConfig.from_sources raises ConfigError: no inference_base_url.
FromSourcesError(conf, env) ==
    IF conf.inference_base_url \/ env.EMAIL_TRIAGE_INFERENCE_BASE_URL THEN "" ELSE "ConfigError"

\* PluginConfig.from_sources(conf, env), the fields the claims read.
FromSources(conf, env) ==
    [inference_retries |-> ParseInt(conf.inference_retries, DefaultRetries),
     inference_backoff_ms |-> ParseInt(conf.inference_backoff_ms, DefaultBackoffMs),
     archive_confidence_threshold |->
        ParseFloat(conf.archive_confidence_threshold, DefaultThreshold),
     email_triage_archive_enabled |->
        ParseBool(EnvGet(env.EMAIL_TRIAGE_ARCHIVE_ENABLED, conf.email_triage_archive_enabled),
                  TRUE),
     email_triage_fail_open |->
        ParseBool(EnvGet(env.EMAIL_TRIAGE_FAIL_OPEN, conf.email_triage_fail_open), TRUE),
     email_triage_blocklist_enabled |->
        ParseBool(EnvGet(env.EMAIL_TRIAGE_BLOCKLIST_ENABLED,
                         conf.email_triage_blocklist_enabled), TRUE),
     email_triage_legacy_rules_enabled |->
        ParseBool(EnvGet(env.EMAIL_TRIAGE_LEGACY_RULES_ENABLED,
                         conf.email_triage_legacy_rules_enabled), FALSE),
     shadow_mode |-> ParseBool(conf.shadow_mode, FALSE),
     canary_percent |-> ClampCanary(ParseFloat(conf.canary_percent, CanaryFull))]

\* The configuration objects and the environments of the model.  A variable of
\* the environment is a string or is not set; the environment also holds
\* variables named after the fields that from_sources reads from the
\* configuration object only.
ConfObjects ==
    {[inference_base_url |-> u, inference_retries |-> r,
      inference_backoff_ms |-> RawAbsent, archive_confidence_threshold |-> RawNum(900),
      email_triage_archive_enabled |-> a, email_triage_fail_open |-> f,
      email_triage_blocklist_enabled |-> Absent, email_triage_legacy_rules_enabled |-> l,
      shadow_mode |-> s, canary_percent |-> c] :
        u \in BOOLEAN, r \in {RawNum(-1)},
        a \in {Absent, BoolV("False"), BoolV("True"), IntV},
        f \in {Absent, BoolV("False")},
        l \in {Absent, BoolV("True"), Str(<<"n", "o">>)},
        s \in {Absent, Str(<<"y", "e", "s">>)},
        c \in {RawAbsent, RawNum(1500), RawNum(-50), RawNum(125), NaN}}

Environments ==
    {[EMAIL_TRIAGE_INFERENCE_BASE_URL |-> u,
      EMAIL_TRIAGE_ARCHIVE_ENABLED |-> a, EMAIL_TRIAGE_FAIL_OPEN |-> f,
      EMAIL_TRIAGE_BLOCKLIST_ENABLED |-> b, EMAIL_TRIAGE_LEGACY_RULES_ENABLED |-> l,
      EMAIL_TRIAGE_SHADOW_MODE |-> Str(<<"t", "r", "u", "e">>),
      EMAIL_TRIAGE_CANARY_PERCENT |-> Str(<<"5">>),
      EMAIL_TRIAGE_INFERENCE_RETRIES |-> Str(<<"3">>)] :
        u \in BOOLEAN,
        a \in {Absent, Str(<<"f", "a", "l", "s", "e">>), Str(<<" ", "O", "N", " ">>),
               Str(<<"m", "a", "y", "b", "e">>)},
        f \in {Absent, Str(<<"0">>)},
        b \in {Absent, Str(<<"Y">>)},
        l \in {Absent, Str(<<"1">>), Str(<<>>)}}

InitConfig ==
    /\ config = IdleConfig
    /\ PipelineFresh
    /\ UnitsIdle
    /\ IoIdleBut("cfg")
    /\ cfg \in {[NoSources EXCEPT !.pc = "sources", !.conf = c, !.env = e] :
                   c \in ConfObjects, e \in Environments}

\* PluginConfig.from_sources(conf, env) returns the configuration
FromSourcesBuilds ==
    /\ cfg.pc = "sources"
    /\ FromSourcesError(cfg.conf, cfg.env) = ""
    /\ cfg' = [cfg EXCEPT !.pc = "built", !.built = FromSources(cfg.conf, cfg.env)]
    /\ UNCHANGED <<pipelineVars, rx, gate, reg, canary>>
    /\ IoUnchangedBut("cfg")

\* PluginConfig.from_sources(conf, env) raises
FromSourcesRaises ==
    /\ cfg.pc = "sources"
    /\ FromSourcesError(cfg.conf, cfg.env) # ""
    /\ cfg' = [cfg EXCEPT !.pc = "raised", !.error = FromSourcesError(cfg.conf, cfg.env)]
    /\ UNCHANGED <<pipelineVars, rx, gate, reg, canary>>
    /\ IoUnchangedBut("cfg")

NextConfig == FromSourcesBuilds \/ FromSourcesRaises

SpecConfig == InitConfig /\ [][NextConfig]_vars

\* ----------------------------------------------------- reading the history

Returned(i) == pc[i] = "returned"

Raised(i) == pc[i] = "raised"

\* The identifier of the message invocation i works on ("" before validation).
MessageOf(i) == request[i].message_id

\* The positions of i's calls of operation op.
CallsOf(i, op) == {k \in DOMAIN calls[i] : calls[i][k].op = op}

Made(i, op) == CallsOf(i, op) # {}

\* i's calls of op that raised.
FailedCallsOf(i, op) == {k \in CallsOf(i, op) : calls[i][k].err # ""}

\* The events the sink holds from invocation i.
EventsOf(i) == {k \in DOMAIN sink : sink[k].inv = i}

\* The retry executor has ended by raising the error of classify's last attempt:
\* a failed classify call that no sleep follows.
ClassifyExhausted(i) ==
    /\ pc[i] \notin {"sleep"}
    /\ \E k \in FailedCallsOf(i, "classify") :
          k = Len(calls[i]) \/ calls[i][k + 1].op # "sleep"

\* The error raised by classify's last attempt.
LastClassifyError(i) ==
    LET k == CHOOSE k \in FailedCallsOf(i, "classify") :
                 \A l \in FailedCallsOf(i, "classify") : l <= k
    IN calls[i][k].err

\* Classification has completed, genuinely or by fail-open synthesis.
Classified(i) == origin[i] \in {"client", "fail_open"}

ResolvedStatuses ==
    {"archived", "shadow_kept", "kept_in_inbox", "archive_disabled_kept", "action_failed"}

LedgerKey(m) == <<m, config.model_version>>

\* ----------------------------------------------------------------- claims

\* C1 (SpecSeq).  Invocations run one after the other on one ledger.  For every
\* message, the first invocation that returns a result reports a resolved
\* status, every later invocation that returns for the same message reports
\* duplicate_skipped, and the runtime has archived the message at most once.
\* (Invocation numbers are the order of the calls.)
C1_SequentialIdempotency ==
    /\ \A i \in Inv :
          Returned(i) =>
             IF \E j \in 1..(i - 1) : Returned(j) /\ MessageOf(j) = MessageOf(i)
             THEN result[i].action_status = "duplicate_skipped"
             ELSE result[i].action_status \in ResolvedStatuses
    /\ \A m \in MessageIds : archived[m] <= 1

\* C1 witness: a message archived by one invocation and skipped by the next.
C1_Witness ==
    \E i, j \in Inv :
       /\ i < j /\ Returned(i) /\ Returned(j) /\ MessageOf(i) = MessageOf(j)
       /\ result[i].action_status = "archived"
       /\ result[j].action_status = "duplicate_skipped"
       /\ archived[MessageOf(i)] = 1

\* C2 (Spec), the claim as stated: under any interleaving of invocations,
\* archive_email is invoked at most once for each message.
C2_ArchiveInvokedAtMostOnce ==
    \A m \in MessageIds :
       Cardinality(UNION {{<<i, k>> : k \in {l \in CallsOf(i, "archive_email") :
                                                 calls[i][l].msg = m}} : i \in Inv}) <= 1

\* C3 (Spec).  An invocation whose ledger lookup came after a completed
\* mark_applied for its key makes no classify, archive_email or keep_in_inbox
\* call, raises nothing, and returns duplicate_skipped.
C3_LookupAfterMarkSkips ==
    \A i \in Inv :
       lookupAfterMark[i] =>
          /\ ~Made(i, "classify")
          /\ ~Made(i, "archive_email")
          /\ ~Made(i, "keep_in_inbox")
          /\ pc[i] \in {"duplicate", "returned"}
          /\ Returned(i) => result[i].action_status = "duplicate_skipped"

\* C3 witness: an invocation skipped as a duplicate while the invocation that
\* wrote the ledger entry is still running.
C3_Witness ==
    \E i, j \in Inv :
       /\ i # j /\ MessageOf(i) = MessageOf(j)
       /\ pc[i] = "telemetry"
       /\ lookupAfterMark[j] /\ Returned(j)

\* Rollout membership of a message, from the configured percentage.
InRollout(m) ==
    \/ config.canary_percent >= CanaryFull
    \/ config.canary_percent > 0 /\ 10 * (Bucket(m) + 1) <= config.canary_percent

\* C4 (Spec).  archive_email is invoked only by an invocation with shadow mode
\* off, its message in rollout, archiving enabled, and a response received from
\* the inference client whose decision is archive and whose confidence is at
\* least the configured threshold; and only for that invocation's message.
C4_ArchiveGuard ==
    \A i \in Inv :
       \A k \in CallsOf(i, "archive_email") :
          /\ calls[i][k].msg = MessageOf(i)
          /\ ~config.shadow_mode
          /\ InRollout(MessageOf(i))
          /\ config.email_triage_archive_enabled
          /\ origin[i] = "client"
          /\ received[i].decision = "archive"
          /\ received[i].confidence >= config.archive_confidence_threshold

\* C4 witness: archive_email has been invoked under a partial rollout.
C4_Witness ==
    \E i \in Inv :
       /\ Made(i, "archive_email")
       /\ config.canary_percent \notin {0, CanaryFull}

\* C5 (SpecSeq).  A received archive response below the threshold is returned
\* as needs_attention with the configured threshold and the response's own
\* confidence, source, rule, model version and latency; one at or above the
\* threshold is returned as archive with the remote threshold.
C5_ThresholdRecheck ==
    \A i \in Inv :
       (Returned(i) /\ origin[i] = "client" /\ received[i].decision = "archive") =>
          IF received[i].confidence < config.archive_confidence_threshold
          THEN /\ result[i].decision = "needs_attention"
               /\ result[i].threshold_used = config.archive_confidence_threshold
               /\ result[i].confidence = received[i].confidence
               /\ result[i].source = received[i].source
               /\ result[i].rule = received[i].rule
               /\ result[i].model_version = received[i].model_version
               /\ result[i].latency_ms = received[i].latency_ms
          ELSE /\ result[i].decision = "archive"
               /\ result[i].threshold_used = received[i].threshold_used
               /\ result[i].confidence = received[i].confidence

\* C5 witness: one response downgraded although the remote threshold admitted
\* it, and a later one at exactly the threshold returned with a different
\* remote threshold.
C5_Witness ==
    \E i, j \in Inv :
       /\ i < j /\ Returned(i)
       /\ result[i].reasoning.text = "archive confidence below threshold"
       /\ result[i].confidence >= 800
       /\ result[i].threshold_used = config.archive_confidence_threshold
       /\ Returned(j) /\ origin[j] = "client" /\ received[j].decision = "archive"
       /\ received[j].confidence = config.archive_confidence_threshold
       /\ result[j].threshold_used # config.archive_confidence_threshold

\* C6 (SpecSeq), the claim as stated: with fail-open on, once the retry
\* executor has raised the error of classify's last attempt, execute does not
\* raise; it goes on with a synthesized needs_attention response of confidence
\* 0, and what it returns has that decision and confidence after a
\* keep_in_inbox call.
C6_FailOpenAbsorbs ==
    \A i \in Inv :
       (config.email_triage_fail_open /\ ClassifyExhausted(i)) =>
          /\ ~Raised(i)
          /\ origin[i] = "fail_open"
          /\ Returned(i) =>
                /\ result[i].decision = "needs_attention"
                /\ result[i].confidence = 0
                /\ Made(i, "keep_in_inbox")

\* Execute has raised an error of the inference client to its caller.
FailedClosed(i) == Raised(i) /\ error[i] \in ClientErrors

\* C7 (SpecSeq).  With fail-open off, once the retry executor has raised the
\* error of classify's last attempt, execute has raised that very error, its
\* last call is that classify call (no runtime call, no ledger write, no
\* telemetry), the sink holds no event of it, the ledger holds no key of a
\* message all of whose invocations ended so, and no invocation preceded only by
\* such invocations is reported duplicate_skipped.
C7_FailClosedPropagates ==
    /\ \A i \in Inv :
          (~config.email_triage_fail_open /\ ClassifyExhausted(i)) =>
             /\ Raised(i)
             /\ error[i] = LastClassifyError(i)
             /\ calls[i][Len(calls[i])].op = "classify"
             /\ ~Made(i, "archive_email") /\ ~Made(i, "keep_in_inbox")
             /\ ~Made(i, "mark_applied") /\ ~Made(i, "log")
             /\ EventsOf(i) = {}
    /\ ~config.email_triage_fail_open =>
          \A m \in MessageIds :
             (\A j \in Inv : (pc[j] # "idle" /\ MessageOf(j) = m) => FailedClosed(j))
                => LedgerKey(m) \notin ledger
    /\ ~config.email_triage_fail_open =>
          \A j \in Inv :
             (Returned(j) /\ \A i \in 1..(j - 1) : MessageOf(i) = MessageOf(j) => FailedClosed(i))
                => result[j].action_status # "duplicate_skipped"

\* C7 witness: an invocation failed closed, and the next invocation for the
\* same message was not skipped: it classified again, retried, and failed closed.
C7_Witness ==
    \E i, j \in Inv :
       /\ i < j /\ MessageOf(i) = MessageOf(j)
       /\ ~config.email_triage_fail_open /\ FailedClosed(i)
       /\ ClassifyExhausted(j) /\ Raised(j) /\ Made(j, "sleep")
       /\ error[j] = "UnicodeDecodeError"

\* C8 (SpecSeq), the claim as stated: whenever archive_email raised in an
\* invocation, that invocation does not raise, reports action_failed after a
\* keep_in_inbox call, and returns with its ledger key written and its
\* telemetry event emitted.
C8_ArchiveFailureCompensated ==
    \A i \in Inv :
       FailedCallsOf(i, "archive_email") # {} =>
          /\ ~Raised(i)
          /\ pc[i] \in {"record", "telemetry", "returned"} =>
                /\ Made(i, "keep_in_inbox")
                /\ actionStatus[i] = "action_failed"
          /\ Returned(i) =>
                /\ result[i].action_status = "action_failed"
                /\ LedgerKey(MessageOf(i)) \in ledger
                /\ EventsOf(i) # {}

\* C9 (SpecSeq), the claim as stated: once classification has completed,
\* execute never raises, whichever action-runtime call fails.
C9_ActionFailuresAbsorbed ==
    \A i \in Inv : Classified(i) => ~Raised(i)

\* A raw event that request validation rejects: a required text field that is
\* absent, not a string or blank, a date that is no ISO timestamp, or a flag
\* that is no boolean.
Malformed(ev) ==
    \/ \E f \in {"request_id", "message_id", "sender", "to"} :
          ev[f].t # "str" \/ ev[f].v \in {"", " ", "  "}
    \/ ev.date.t # "str" \/ ~IsIsoDatetime(ev.date.v)
    \/ ev.is_read.t # "bool"

\* C10 (SpecSeq).  An invocation given a malformed event has raised SchemaError
\* having made no call at all (no ledger read or write, no classify, no runtime
\* call, no telemetry); as long as every invocation so far has raised
\* SchemaError, ledger, sink and runtime are as they were initially.
C10_ValidationFailureNoEffects ==
    /\ \A i \in Inv :
          (pc[i] # "idle" /\ Malformed(event[i])) =>
             /\ Raised(i) /\ error[i] = "SchemaError"
             /\ calls[i] = <<>>
             /\ EventsOf(i) = {}
    /\ (\A i \in Inv : pc[i] # "idle" => (Raised(i) /\ error[i] = "SchemaError")) =>
          /\ ledger = {} /\ sink = <<>>
          /\ \A m \in MessageIds : archived[m] = 0 /\ kept[m] = 0

\* C10 witness: a blank message identifier rejected after an earlier
\* invocation has written the ledger.
C10_Witness ==
    \E i, j \in Inv :
       /\ i < j /\ Returned(i) /\ ledger # {}
       /\ event[j].message_id = Str("  ")
       /\ Raised(j) /\ error[j] = "SchemaError"

\* The invocation found its key in the ledger and took the duplicate path.
OnDuplicatePath(i) == origin[i] = "duplicate"

\* C11 (SpecSeq).  An invocation that found its (message_id, model_version)
\* pair applied makes no classify, archive_email, keep_in_inbox or mark_applied
\* call and none of its steps changes the ledger; until it returns the sink holds
\* no event of it, and when it has returned the sink holds exactly one, with
\* action_status duplicate_skipped, decision needs_attention and confidence 0,
\* and the result's action_status is duplicate_skipped.
C11_DuplicateSkipFrame ==
    /\ [](\A i \in Inv :
             OnDuplicatePath(i) =>
                /\ ~Made(i, "classify") /\ ~Made(i, "archive_email")
                /\ ~Made(i, "keep_in_inbox") /\ ~Made(i, "mark_applied")
                /\ LedgerKey(MessageOf(i)) \in ledger
                /\ pc[i] \in {"duplicate", "returned"}
                /\ pc[i] = "duplicate" => EventsOf(i) = {}
                /\ Returned(i) =>
                      /\ Cardinality(EventsOf(i)) = 1
                      /\ \A k \in EventsOf(i) :
                            /\ sink[k].ev.action_status = "duplicate_skipped"
                            /\ sink[k].ev.decision = "needs_attention"
                            /\ sink[k].ev.confidence = 0
                            /\ sink[k].ev.message_id = MessageOf(i)
                      /\ result[i].action_status = "duplicate_skipped")
    /\ [][\A i \in Inv :
             (OnDuplicatePath(i)' /\ pc'[i] # pc[i]) =>
                (ledger' = ledger /\ archived' = archived /\ kept' = kept)]_vars

\* C11 witness: a duplicate of a message that the first invocation archived has
\* returned.
C11_Witness ==
    \E i, j \in Inv :
       /\ i < j /\ result[i].action_status = "archived"
       /\ OnDuplicatePath(j) /\ Returned(j) /\ MessageOf(j) = MessageOf(i)
       /\ Cardinality(EventsOf(j)) = 1

\* The invocation has a local action_status: _apply_action has returned.
HasStatus(i) == Classified(i) /\ pc[i] \in {"record", "telemetry", "returned"}

\* C12 (SpecSeq).  Every invocation that returns a result other than the
\* duplicate one has its key in the ledger, its mark_applied call made before
\* its telemetry call, whatever status it resolved to; an invocation on the
\* duplicate path or one that raised has made no mark_applied call.
C12_UnconditionalRecord ==
    \A i \in Inv :
       /\ (Returned(i) /\ result[i].action_status # "duplicate_skipped") =>
             /\ result[i].action_status \in ResolvedStatuses
             /\ LedgerKey(MessageOf(i)) \in ledger
       /\ (Returned(i) /\ Classified(i)) =>
             /\ Cardinality(CallsOf(i, "mark_applied")) = 1
             /\ \A k \in CallsOf(i, "mark_applied") :
                   /\ calls[i][k].msg = MessageOf(i)
                   /\ \A l \in CallsOf(i, "log") : k < l
       /\ (OnDuplicatePath(i) \/ Raised(i)) => ~Made(i, "mark_applied")
       /\ Made(i, "mark_applied") => HasStatus(i)

\* C12 witness: a fail-open synthesized decision was recorded as kept_in_inbox,
\* and after it a failed archive of the other message was recorded too.
C12_Witness ==
    \E i, j \in Inv :
       /\ i < j /\ Returned(i) /\ result[i].action_status = "kept_in_inbox"
       /\ result[i].reasoning.text = "fail-open due to inference error"
       /\ LedgerKey(MessageOf(i)) \in ledger
       /\ Returned(j) /\ result[j].action_status = "action_failed"
       /\ LedgerKey(MessageOf(j)) \in ledger /\ MessageOf(i) # MessageOf(j)

StatusTable(m, d, archiveRaised) ==
    IF config.shadow_mode \/ ~InRollout(m) THEN "shadow_kept"
    ELSE IF d = "archive" /\ ~config.email_triage_archive_enabled THEN "archive_disabled_kept"
    ELSE IF d = "needs_attention" THEN "kept_in_inbox"
    ELSE IF archiveRaised THEN "action_failed"
    ELSE "archived"

FailedFirst(k) == \A j \in 1..k : ~rx.outcomes[j].ok

\* C15 (SpecRetry).  The executor never gives up while retries remain, and
\* never invokes the operation after a success; when the operation has failed
\* on its first k invocations and succeeded on the next, 0 <= k <= max_retries,
\* run_with_retries has returned the value of that invocation after exactly
\* k + 1 invocations and k sleeps of B, 2B, ..., B * 2^(k-1) milliseconds.
C15_RetrySuccess ==
    /\ rx.pc = "raised" => Len(rx.outcomes) > rx.max_retries
    /\ \A j \in DOMAIN rx.outcomes :
          rx.outcomes[j].ok =>
             LET k == j - 1
             IN /\ rx.pc = "returned"
                /\ Len(rx.outcomes) = k + 1
                /\ 0 <= k /\ k <= rx.max_retries
                /\ FailedFirst(k)
                /\ rx.value = rx.outcomes[j].v
                /\ Len(rx.sleeps) = k
                /\ \A n \in 1..k : rx.sleeps[n] = rx.base_backoff_ms * (2 ^ (n - 1))
    /\ rx.pc = "returned" => Len(rx.outcomes) >= 1 /\ rx.outcomes[Len(rx.outcomes)].ok

\* C15 witness: max_retries is 2, two failures and then a success, after sleeps
\* of B and 2B.
C15_Witness ==
    /\ rx.pc = "returned" /\ rx.max_retries = 2
    /\ Len(rx.outcomes) = 3 /\ rx.value = "b"
    /\ rx.sleeps = <<DefaultBackoffMs, 2 * DefaultBackoffMs>>

\* C16 (SpecRetry).  With max_retries = N >= 0 the executor raises only after
\* N + 1 invocations of the operation, all failed whatever their error types,
\* with exactly N sleeps, and what it raises is the error of invocation N + 1;
\* after the failure of invocation N + 1 it neither sleeps nor invokes again.
C16_RetryExhaustion ==
    rx.max_retries >= 0 =>
       /\ rx.pc = "raised" =>
             /\ Len(rx.outcomes) = rx.max_retries + 1
             /\ FailedFirst(rx.max_retries + 1)
             /\ Len(rx.sleeps) = rx.max_retries
             /\ rx.raised = rx.outcomes[rx.max_retries + 1].v
       /\ Len(rx.outcomes) <= rx.max_retries + 1
       /\ Len(rx.sleeps) <= rx.max_retries
       /\ (Len(rx.outcomes) = rx.max_retries + 1 /\ FailedFirst(rx.max_retries + 1)) =>
             rx.pc = "raised"
       /\ \A j \in DOMAIN rx.outcomes :
             (~rx.outcomes[j].ok /\ j <= rx.max_retries) =>
                (Len(rx.sleeps) >= j \/ (rx.pc = "sleep" /\ Len(rx.sleeps) = j - 1))

\* C16 witness: max_retries is 2, three failures of three different types, the
\* last one raised after two sleeps.
C16_Witness ==
    /\ rx.pc = "raised" /\ rx.max_retries = 2
    /\ rx.outcomes = <<[ok |-> FALSE, v |-> "ValueError"], [ok |-> FALSE, v |-> "SchemaError"],
                       [ok |-> FALSE, v |-> "InferenceClientError"]>>
    /\ rx.raised = "InferenceClientError"
    /\ Len(rx.sleeps) = 2

\* ---------------------------------------------------------------- C17, C18

\* (major, minor, patch) of a before that of b in lexicographic order.
LexLess(a, b) ==
    \/ a[1] < b[1]
    \/ a[1] = b[1] /\ a[2] < b[2]
    \/ a[1] = b[1] /\ a[2] = b[2] /\ a[3] < b[3]

\* The comparison a token <op><semver> asks of the triple v.
TokenHolds(v, tok) ==
    CASE tok.op = <<">", "=">> -> ~LexLess(v, tok.triple)
      [] tok.op = <<"<", "=">> -> ~LexLess(tok.triple, v)
      [] tok.op = <<"=", "=">> -> v = tok.triple
      [] tok.op = <<">">> -> LexLess(tok.triple, v)
      [] OTHER -> LexLess(v, tok.triple)

\* Every token of the range is well formed.
AllWellFormed(toks) == \A k \in DOMAIN toks : toks[k].wf

\* C17 (SpecGate).  For a well-formed version and a range of well-formed tokens,
\* is_supported_version returns, and returns True exactly when the version's
\* triple satisfies the comparison of every token.
C17_VersionGateCorrect ==
    (gate.pc = "done" /\ gate.v.wf /\ AllWellFormed(gate.toks)) =>
       gate.outcome = IF \A k \in DOMAIN gate.toks : TokenHolds(gate.v.triple, gate.toks[k])
                      THEN "True" ELSE "False"

\* C17 witness: 1.10.1 is accepted by >=1.9.1,<2.0.0 (minor 10 against minor 9).
C17_Witness ==
    /\ gate.pc = "done" /\ gate.outcome = "True"
    /\ gate.v.triple = <<1, 10, 1>>
    /\ Len(gate.toks) = 2
    /\ gate.toks[1].wf /\ gate.toks[1].op = <<">", "=">> /\ gate.toks[1].triple = <<1, 9, 1>>
    /\ gate.toks[2].wf /\ gate.toks[2].op = <<"<">> /\ gate.toks[2].triple = <<2, 0, 0>>

\* C18 (SpecGate), the claim as stated: whenever the version is not
\* MAJOR.MINOR.PATCH or some token of the range is malformed, wherever it
\* stands, is_supported_version raises CompatibilityError.
C18_MalformedAlwaysRejected ==
    (gate.pc = "done" /\ (~gate.v.wf \/ ~AllWellFormed(gate.toks))) =>
       gate.outcome = "CompatibilityError"

\* ---------------------------------------------------------------- C19, C20

\* The declared host version satisfies the configured range.
HostSupported ==
    /\ reg.openclaw_version.declared
    /\ IsSupportedVersion(reg.openclaw_version.text, reg.supported_openclaw_versions) = "True"

\* The configuration can be built: an inference base URL is given.
ConfigValid == reg.conf_base_url \/ reg.env_base_url

\* C19 (SpecRegister), the claim as stated: when register has ended, if the
\* host version does not satisfy the range or the configuration is invalid it
\* has raised PluginRegistrationError and the registry is empty, and otherwise
\* the registry holds exactly the command email.triage.v1; a command is never
\* registered before the configuration build and the version check succeeded.
C19_RegistrationGate ==
    /\ reg.pc \in {"returned", "raised"} =>
          IF ~HostSupported \/ ~ConfigValid
          THEN reg.pc = "raised" /\ reg.error = "PluginRegistrationError" /\ reg.commands = <<>>
          ELSE reg.pc = "returned" /\ reg.commands = <<"email.triage.v1">>
    /\ reg.commands # <<>> =>
          \E a, b \in DOMAIN reg.done :
             a < b /\ reg.done[a] = "config" /\ reg.done[b] = "version"

\* C20 (SpecCanary).  Whatever the other settings, _is_in_canary returns true
\* when p >= 100, false when p <= 0, and otherwise whether the bucket of the
\* identifier is below floor(p), that is 10 * (bucket + 1) <= p in tenths.
C20_CanaryMembership ==
    canary.pc = "done" =>
       /\ config.canary_percent >= CanaryFull => canary.result
       /\ config.canary_percent <= 0 => ~canary.result
       /\ canary.result = InRollout(canary.message_id)

\* C20 witness: at 34.9 percent the identifier of bucket 34 is out while the
\* call was made with shadow mode on.
C20_Witness ==
    /\ canary.pc = "done" /\ canary.message_id = "m3"
    /\ config.canary_percent = 349 /\ config.shadow_mode
    /\ ~canary.result

\* C21 (SpecCanary).  The canary is monotone in the percentage: for
\* percentages p1 <= p2 within [0, 100] (the ends and fractional values
\* included), a message that _is_in_canary admits at p1 is admitted at p2 too,
\* so raising the percentage never takes a message out of the rollout.
C21_CanaryMonotone ==
    \A k \in 1..Len(canary.before) :
       LET p1 == canary.before[k].canary_percent
           p2 == config.canary_percent
       IN  (0 <= p1 /\ p1 <= p2 /\ p2 <= CanaryFull /\ canary.before[k].result)
              => canary.result

\* A message of bucket 9, admitted at 10.0 percent, is admitted again once the
\* percentage is raised to 35.0.
C21_Witness ==
    /\ canary.before # <<>> /\ canary.message_id = "m2"
    /\ canary.before[1].canary_percent = 100 /\ canary.before[1].result
    /\ config.canary_percent = 350 /\ canary.result

\* The nine keys of the result dictionary.
ResultKeys ==
    {"action_status", "decision", "confidence", "source", "rule", "reasoning",
     "model_version", "threshold_used", "latency_ms"}

\* C22 (SpecSeq).  Every dictionary execute returns, on the duplicate path as
\* on the others, has the keys action_status, decision, confidence, source,
\* rule, reasoning, model_version, threshold_used and latency_ms.
C22_ResultShape ==
    \A i \in Inv : Returned(i) => ResultKeys \subseteq DOMAIN result[i]

\* The decision fields of the response a returned invocation ended with, read
\* from what it returned: the dictionary, or for a duplicate the synthesized
\* response, of which the dictionary carries four fields only.
FinalFields(i) ==
    IF result[i].action_status = "duplicate_skipped"
    THEN [decision |-> result[i].decision, confidence |-> DuplicateResponse(config).confidence,
          source |-> result[i].source, rule |-> DuplicateResponse(config).rule,
          model_version |-> result[i].model_version,
          latency_ms |-> DuplicateResponse(config).latency_ms]
    ELSE [decision |-> result[i].decision, confidence |-> result[i].confidence,
          source |-> result[i].source, rule |-> result[i].rule,
          model_version |-> result[i].model_version, latency_ms |-> result[i].latency_ms]

\* C23 (SpecSeq).  An invocation that has returned has given the sink exactly
\* one event, whose action_status, decision, confidence, source, rule,
\* model_version and latency_ms are those of its final response and of the
\* status it returned; an invocation that raised, or has not returned yet, has
\* given none; and every step leaves the events already given in place,
\* unaltered.
C23_TelemetryEmission ==
    /\ [](\A i \in Inv :
             /\ Returned(i) =>
                   /\ Cardinality(EventsOf(i)) = 1
                   /\ \A k \in EventsOf(i) :
                         /\ sink[k].ev.action_status = result[i].action_status
                         /\ sink[k].ev.decision = FinalFields(i).decision
                         /\ sink[k].ev.confidence = FinalFields(i).confidence
                         /\ sink[k].ev.source = FinalFields(i).source
                         /\ sink[k].ev.rule = FinalFields(i).rule
                         /\ sink[k].ev.model_version = FinalFields(i).model_version
                         /\ sink[k].ev.latency_ms = FinalFields(i).latency_ms
                         /\ sink[k].ev.message_id = request[i].message_id
                         /\ response[i] # NoResponse =>
                               FinalFields(i) =
                                  [f \in DOMAIN FinalFields(i) |-> response[i][f]]
             /\ ~Returned(i) => EventsOf(i) = {})
    /\ [][Len(sink') >= Len(sink) /\ SubSeq(sink', 1, Len(sink)) = sink]_vars

\* C23 witness: one invocation raised and gave the sink nothing, another had an
\* archive decision downgraded by the re-check and returned, and the sink holds
\* its one event.
C23_Witness ==
    \E i, j \in Inv :
       /\ Raised(i) /\ Returned(j) /\ Len(sink) = 1 /\ sink[1].inv = j
       /\ result[j].reasoning.text = "archive confidence below threshold"
       /\ sink[1].ev.decision = "needs_attention"

\* s holds a run of four digits or more.
HasLongDigitRun(s) ==
    \E k \in DOMAIN s : k + 3 <= Len(s) /\ \A j \in k..(k + 3) : IsDigit(s[j])

\* s holds something of the shape of an email address: a local character, @,
\* domain characters, a dot and two letters.
HasEmailShape(s) ==
    \E k \in Positions(s, "@") :
       /\ k > 1 /\ s[k - 1] \in LocalChars
       /\ \E d \in Positions(s, ".") :
             /\ d > k + 1 /\ d + 2 <= Len(s)
             /\ \A j \in (k + 1)..(d - 1) : s[j] \in DomainChars
             /\ s[d + 1] \in Letters /\ s[d + 2] \in Letters

\* part occurs in s as a run of consecutive characters.
Occurs(part, s) ==
    \E k \in 0..(Len(s) - Len(part)) : SubSeq(s, k + 1, k + Len(part)) = part

\* C24 (SpecRedact).  The event's snippet comes from the first 180 characters
\* of the body at most, and holds nothing shaped like an email address and no
\* run of four digits or more; the subject and the thread identifier are in the
\* event as SHA-256 digests only, and the sender as its lower-cased domain only:
\* no @, no upper-case letter, and the text after an @ of the sender.
C24_Redaction ==
    redact.pc = "done" =>
       /\ ~HasEmailShape(redact.event.snippet_redacted)
       /\ ~HasLongDigitRun(redact.event.snippet_redacted)
       /\ ~Occurs(<<"[">>, redact.event.snippet_redacted) =>
              redact.event.snippet_redacted = Prefix(redact.body_text, SnippetMaxChars)
       /\ DOMAIN redact.event =
              {"thread_id_hash", "sender_domain", "subject_hash", "snippet_redacted"}
       /\ redact.event.subject_hash = Sha256Hex(redact.subject)
       /\ redact.event.thread_id_hash = Sha256Hex(redact.thread_id)
       /\ Positions(redact.event.sender_domain, "@") = {}
       /\ redact.event.sender_domain = Lower(redact.event.sender_domain)
       /\ redact.event.sender_domain # <<>> =>
              Occurs(<<"@">> \o redact.event.sender_domain, Lower(redact.sender))

\* The text ends with a newline character.
EndsWithNewline(text) == text # <<>> /\ text[Len(text)] = "\n"

\* C25 (SpecSink).  After k log calls on a file that was absent or empty, the
\* file has exactly k lines, each ended by a newline character and each the one
\* JSON object of the event of the call of that rank; load_decisions reads the
\* file without error and returns exactly those k events, in order.
C25_FileFormat ==
    Len(jsonl.logged) >= 1 =>
       /\ Cardinality(Positions(jsonl.text, "\n")) = Len(jsonl.logged)
       /\ EndsWithNewline(jsonl.text)
       /\ \A k \in DOMAIN jsonl.logged :
             FileLines(jsonl.text)[k] = JsonDumps(jsonl.logged[k])
       /\ jsonl.pc # "failed"
       /\ jsonl.pc = "loaded" => jsonl.loaded = jsonl.logged

\* The keys of the rows of the persistent store.
RowKeys(rows) == {<<r.message_id, r.decision_version>> : r \in rows}

\* The keys a store holds when call k has returned.
KeysAfter(k) ==
    LET seen == IF k = Len(store.calls) THEN store.seen ELSE store.calls[k + 1].seen
        rows == IF k = Len(store.calls) THEN store.rows ELSE store.calls[k + 1].rows
    IN  IF store.calls[k].variant = "memory" THEN seen ELSE RowKeys(rows)

\* The keys a store held when call k was made.
KeysBefore(k) ==
    IF store.calls[k].variant = "memory" THEN store.calls[k].seen
    ELSE RowKeys(store.calls[k].rows)

\* Call k left the key set and the rows of both stores as it found them.
ChangedNothing(k) ==
    /\ store.calls[k].seen = (IF k = Len(store.calls) THEN store.seen
                                ELSE store.calls[k + 1].seen)
    /\ store.calls[k].rows = (IF k = Len(store.calls) THEN store.rows
                                ELSE store.calls[k + 1].rows)

\* C26 (SpecLedger).  In both stores an is_applied call changes nothing; a
\* mark_applied call returns, adds its key and nothing else, and changes
\* nothing when the key is there already, so that marking twice leaves what
\* marking once leaves; in the SQLite store the row of a key that is marked
\* again keeps its applied_at.
C26_LedgerOperations ==
    \A k \in DOMAIN store.calls :
       /\ store.calls[k].op = "is_applied" => ChangedNothing(k)
       /\ store.calls[k].op = "mark_applied" =>
             /\ store.calls[k].ret = ""
             /\ KeysAfter(k) = KeysBefore(k) \cup {store.calls[k].key}
             /\ store.calls[k].key \in KeysBefore(k) => ChangedNothing(k)

\* C26 witness: the SQLite store is asked about a key, the key is marked, and
\* marked again later; its row has the time of the first marking.
C26_Witness ==
    /\ Len(store.calls) = 3
    /\ \A k \in 1..3 : store.calls[k].variant = "sqlite" /\ store.calls[k].key = <<"m1", "v1">>
    /\ store.calls[1].op = "is_applied" /\ ~store.calls[1].ret
    /\ store.calls[2].op = "mark_applied" /\ store.calls[3].op = "mark_applied"
    /\ store.rows = {[message_id |-> "m1", decision_version |-> "v1", applied_at |-> 1]}

\* The calls of mark_applied on the store of the variant, for the key, before
\* call k.
MarkedBefore(variant, key, k) ==
    \E j \in 1..(k - 1) :
       /\ store.calls[j].variant = variant /\ store.calls[j].op = "mark_applied"
       /\ store.calls[j].key = key

\* C27 (SpecLedger).  is_applied(m, v) returns true exactly when a
\* mark_applied(m, v) call on the same store has completed before it, whatever
\* calls were made in between and on whatever keys; a store holds exactly the
\* keys that were marked, one entry per key; and no step removes a key or a row
\* or writes a row anew.
C27_LedgerPermanence ==
    /\ [](/\ \A k \in DOMAIN store.calls :
                store.calls[k].op = "is_applied" =>
                   (store.calls[k].ret <=>
                       MarkedBefore(store.calls[k].variant, store.calls[k].key, k))
           /\ \A key \in StoreKeys :
                /\ key \in store.seen <=> MarkedBefore("memory", key, Len(store.calls) + 1)
                /\ key \in RowKeys(store.rows) <=>
                      MarkedBefore("sqlite", key, Len(store.calls) + 1)
           /\ Cardinality(RowKeys(store.rows)) = Cardinality(store.rows))
    /\ [][store.seen \subseteq store'.seen /\ store.rows \subseteq store'.rows]_vars

\* C27 witness: a key marked by the first call on the SQLite store is found by
\* the last one, after another key was marked and a third looked up.
C27_Witness ==
    /\ Len(store.calls) = 4
    /\ \A k \in 1..4 : store.calls[k].variant = "sqlite"
    /\ store.calls[1].op = "mark_applied" /\ store.calls[1].key = <<"m1", "v1">>
    /\ store.calls[2].op = "mark_applied" /\ store.calls[2].key = <<"m1", "v2">>
    /\ store.calls[3].op = "is_applied" /\ store.calls[3].key = <<"m2", "v1">>
    /\ ~store.calls[3].ret
    /\ store.calls[4].op = "is_applied" /\ store.calls[4].key = <<"m1", "v1">>
    /\ store.calls[4].ret

\* The three conditions on the fields of a response.
ResponseValid(r) ==
    /\ r.decision \in {"archive", "needs_attention"}
    /\ 0 <= r.confidence /\ r.confidence <= 1000
    /\ r.latency_ms >= 0

\* The arguments given for the endpoint's response meet the three conditions.
ArgsValid ==
    /\ resp.decision \in {"archive", "needs_attention"}
    /\ resp.confidence \in {Num(v) : v \in 0..1000}
    /\ resp.latency_ms >= 0

\* C28 (SpecResponse).  Every EmailTriageResponse object, received, downgraded
\* by the threshold check, or synthesized on the fail-open or the duplicate
\* path, has a decision of archive or needs_attention, a confidence within
\* [0, 1] and a latency_ms of 0 or more, and so has the result and the event
\* made from it; a construction fails exactly when its arguments break one of
\* the three conditions, and then with SchemaError.
C28_ResponseInvariant ==
    /\ \A k \in DOMAIN resp.objects :
          /\ ResponseValid(resp.objects[k].r)
          /\ FullResult("kept_in_inbox", resp.objects[k].r).decision
                \in {"archive", "needs_attention"}
          /\ BuildDecisionEvent(NoRequest, resp.objects[k].r, "kept_in_inbox").decision
                \in {"archive", "needs_attention"}
    /\ resp.error \in {"", "SchemaError"}
    /\ resp.error = "SchemaError" => ~ArgsValid
    /\ (\E k \in DOMAIN resp.objects : resp.objects[k].kind = "received") => ArgsValid
    /\ resp.pc \in {"received", "rechecked", "failed"} =>
          (ArgsValid <=> resp.error = "")

\* C28 witness: a confidence of NaN was rejected with SchemaError, and the
\* response synthesized for the fail-open path exists in its place.
C28_Witness ==
    /\ resp.confidence = NaN /\ resp.decision = "archive" /\ resp.latency_ms = 0
    /\ resp.error = "SchemaError"
    /\ Len(resp.objects) = 1 /\ resp.objects[1].kind = "fail_open"

\* C29 (SpecClient).  A classify call that has ended issued exactly one POST,
\* and it either returned a response or raised InferenceClientError: a
\* transport failure, a timeout, an HTTP error status, malformed or non-object
\* JSON, and missing or malformed response fields all surface as that error,
\* and no error of another type leaves classify.
C29_ClientErrorContract ==
    client.pc \in {"returned", "raised"} =>
       /\ client.posts = 1
       /\ client.pc = "raised" => client.error = "InferenceClientError"
       /\ client.pc = "returned" => ResponseValid(client.returned)

\* The instant a date of the payload denotes, in minutes of UTC, a date without
\* zone being taken as UTC.
PayloadInstant(d) ==
    IF d.t = "datetime" THEN d.dt.wall - (IF d.dt.aware THEN d.dt.offset ELSE 0)
    ELSE d.wall - (IF d.zone \in {"", "Z"} THEN 0 ELSE ZoneOffset(d.zone))

\* The field of the payload, or its default when the payload has none.
PayloadField(f, default) ==
    IF req.payload[f].t \in {"absent", "none"} THEN default ELSE req.payload[f]

\* C30 (SpecRequest).  For a payload that from_dict accepts, to_dict of the
\* request gives back every field of the payload, an absent optional field as
\* its default, and the date as text with an explicit offset denoting the same
\* instant (a date without zone as UTC); and from_dict of that dictionary is
\* accepted and equals the request.
C30_RequestRoundTrip ==
    /\ req.pc \in {"dict", "again"} =>
          /\ \A f \in {"request_id", "message_id", "sender", "to"} :
                req.out[f] = req.payload[f]
          /\ req.out.thread_id = PayloadField("thread_id", NoneV)
          /\ req.out.subject = PayloadField("subject", Str(""))
          /\ req.out.gmail_labels = PayloadField("gmail_labels", ListV(<<>>))
          /\ req.out.is_read = PayloadField("is_read", BoolV("False"))
          /\ req.out.date.t = "str" /\ req.out.date.zone \in {"+00:00", "+05:30"}
          /\ PayloadInstant(req.out.date) = PayloadInstant(req.payload.date)
    /\ req.pc = "rejected" => req.out = <<>>
    /\ req.pc = "again" => RequestEq(req.again, req.request)

\* ------------------------------------------------------------------- C31

\* The actions of a list, each with applied false.
Unapplied(actions) == [k \in 1..Len(actions) |-> [actions[k] EXCEPT !.applied = FALSE]]

\* C31 (SpecRestore).  A dry run leaves the target tree as it was, and the list
\* it returns is the list of the actions the applying run for the same snapshot
\* and include filter performs, each with applied false; every action is for
\* an entry whose status is backed_up.
C31_RestoreDryRun ==
    /\ (restore.pc \in {"previewed", "applied"} /\ restore.dry.error = "") =>
          /\ restore.dry.tree = restore.target
          /\ \A k \in 1..Len(restore.dry.actions) :
                /\ restore.dry.actions[k].applied = FALSE
                /\ \E e \in 1..Len(restore.entries) :
                      /\ restore.entries[e].status = "backed_up"
                      /\ restore.entries[e].kind = restore.dry.actions[k].kind
                      /\ NormalizeTargetDest(restore.entries[e].source_path)
                            = restore.dry.actions[k].destination
    /\ (restore.pc = "applied" /\ restore.dry.error = "") =>
          restore.dry.actions = Unapplied(restore.applying.actions)

\* ------------------------------------------------------------------- C32

\* The window of a run: the trailing window_hours ending at the latest
\* decision timestamp.
InsideWindow(t) ==
    /\ t >= LatestTimestamp(rollback.decisions) - rollback.window_hours
    /\ t <= LatestTimestamp(rollback.decisions)

WindowArchived ==
    {k \in 1..Len(rollback.decisions) :
        /\ InsideWindow(rollback.decisions[k].timestamp)
        /\ rollback.decisions[k].action_status = "archived"}

WindowCorrections ==
    {k \in 1..Len(rollback.corrections) :
        /\ InsideWindow(rollback.corrections[k].timestamp)
        /\ \E a \in WindowArchived :
              rollback.decisions[a].message_id = rollback.corrections[k].message_id}

ReportsTriggered ==
    /\ rollback.pc = "reported"
    /\ rollback.report.reason = ""
    /\ rollback.report.rollback_triggered

\* C32 (SpecRollback).  The evaluator reports rollback_triggered exactly when
\* the corrections inside the window for messages archived inside the window,
\* divided by the archived decisions inside the window, exceed the threshold;
\* with no archived decision in the window it is not triggered; and the
\* override file is written only when rollback is triggered.
C32_RollbackTrigger ==
    rollback.pc = "reported" =>
       /\ rollback.decisions # <<>> =>
             /\ WindowArchived # {} =>
                   (ReportsTriggered <=>
                       Cardinality(WindowCorrections) * 1000
                          > rollback.rollback_threshold * Cardinality(WindowArchived))
             /\ WindowArchived = {} => ~ReportsTriggered
       /\ rollback.decisions = <<>> => ~ReportsTriggered
       /\ rollback.env_file # <<>> => ReportsTriggered

\* ------------------------------------------------------------------- C33

\* Invocation i has returned a result that is not the duplicate one, and the
\* record of its calls is still held.
ReturnedResolved(i) ==
    /\ Returned(i)
    /\ result[i].action_status \in ResolvedStatuses
    /\ calls[i] # <<>>

\* C33 (SpecSeq).  An invocation that returns a non-duplicate result has made
\* exactly one keep_in_inbox call, for its own message, and that call returned;
\* unless its status is archived: then it has made exactly one archive_email
\* call, which returned, and no keep_in_inbox call.  No invocation makes more
\* than one archive_email call.
C33_SingleSideEffect ==
    \A i \in Inv :
       /\ Cardinality(CallsOf(i, "archive_email")) <= 1
       /\ ReturnedResolved(i) =>
             IF result[i].action_status = "archived"
             THEN /\ Cardinality(CallsOf(i, "archive_email")) = 1
                  /\ FailedCallsOf(i, "archive_email") = {}
                  /\ CallsOf(i, "keep_in_inbox") = {}
             ELSE /\ Cardinality(CallsOf(i, "keep_in_inbox")) = 1
                  /\ FailedCallsOf(i, "keep_in_inbox") = {}
                  /\ \A k \in CallsOf(i, "keep_in_inbox") : calls[i][k].msg = MessageOf(i)
                  /\ FailedCallsOf(i, "archive_email") = CallsOf(i, "archive_email")

\* One invocation has returned archived, and a later one, for another message,
\* has returned action_failed after its archive call raised.
C33_Witness ==
    \E i, j \in Inv :
       /\ i < j
       /\ Returned(i) /\ result[i].action_status = "archived"
       /\ ReturnedResolved(j) /\ result[j].action_status = "action_failed"
       /\ Cardinality(FailedCallsOf(j, "archive_email")) = 1
       /\ Cardinality(CallsOf(j, "keep_in_inbox")) = 1

\* ------------------------------------------------------------------- C34

\* The place of an operation in the order of execute: the ledger lookup, the
\* inference-client calls with the sleeps between them, the action-runtime
\* calls, the ledger write, the telemetry emission.
StepRank(op) ==
    CASE op = "is_applied" -> 1
      [] op \in {"classify", "sleep"} -> 2
      [] op \in {"archive_email", "keep_in_inbox"} -> 3
      [] op = "mark_applied" -> 4
      [] op = "log" -> 5

Finished(i) == Returned(i) \/ Raised(i)

\* C34 (SpecSeq).  In the calls of one invocation the ledger lookup comes first
\* and once, every inference-client call comes before every action-runtime
\* call, every action-runtime call before the ledger write, and the ledger
\* write, made at most once, before the telemetry emission, made at most once
\* and last; and an invocation that has returned or raised makes no further
\* call, gives the sink no further event, and keeps its result and error.
C34_StepOrdering ==
    /\ [](\A i \in Inv :
             /\ calls[i] # <<>> => calls[i][1].op = "is_applied"
             /\ \A k, l \in DOMAIN calls[i] :
                   k < l =>
                      /\ StepRank(calls[i][k].op) <= StepRank(calls[i][l].op)
                      /\ StepRank(calls[i][k].op) \in {1, 4, 5} =>
                            StepRank(calls[i][k].op) < StepRank(calls[i][l].op))
    /\ [][\A i \in Inv :
             Finished(i) =>
                /\ calls'[i] = calls[i] \/ calls'[i] = <<>>
                /\ pc'[i] = pc[i] /\ result'[i] = result[i] /\ error'[i] = error[i]
                /\ Len(sink') > Len(sink) => sink'[Len(sink')].inv # i]_vars

\* C34 witness: one invocation has made every kind of call: the lookup, a
\* failed and a successful classify call with the sleep between, a failed
\* archive call and its compensation, the ledger write and the emission.
C34_Witness ==
    \E i \in Inv :
       /\ Returned(i)
       /\ \A op \in {"is_applied", "classify", "sleep", "archive_email", "keep_in_inbox",
                     "mark_applied", "log"} : Made(i, op)
       /\ Len(calls[i]) = 8

\* ------------------------------------------------------------------- C35

\* Invocation i has been called.
Called(i) == pc[i] # "idle"

\* i raised the SchemaError of request validation.
ValidationFailed(i) == Raised(i) /\ ~FromDictOk(event[i]) /\ error[i] = "SchemaError"

\* C35 (SpecOne).  Every invocation that is called returns or raises; with
\* inference_retries >= 0 it makes at most inference_retries + 1 classify
\* calls; and on the duplicate-skip path and on the validation-failure path it
\* makes none.
C35_BoundedInvocation ==
    /\ [](\A i \in Inv :
             /\ config.inference_retries >= 0 =>
                   Cardinality(CallsOf(i, "classify")) <= config.inference_retries + 1
             /\ (origin[i] = "duplicate" \/ ValidationFailed(i)) =>
                   CallsOf(i, "classify") = {})
    /\ \A i \in Inv : Called(i) ~> Finished(i)

\* C35 witness: with inference_retries = MaxRetries, an invocation has returned
\* the fail-open result after MaxRetries + 1 classify calls, all of which raised,
\* with a sleep after each but the last.
C35_Witness ==
    /\ config.inference_retries = MaxRetries
    /\ \E i \in Inv :
          /\ Returned(i) /\ origin[i] = "fail_open"
          /\ Cardinality(CallsOf(i, "classify")) = MaxRetries + 1
          /\ FailedCallsOf(i, "classify") = CallsOf(i, "classify")
          /\ Cardinality(CallsOf(i, "sleep")) = MaxRetries

\* ------------------------------------------------------------------- C36

\* No other invocation that has been called works on i's message.
Unshared(i) ==
    \A j \in Inv \ {i} : Called(j) => MessageOf(j) # MessageOf(i)

\* i's calls on the action runtime, in order, each with whether it returned.
RuntimeCalls(i) ==
    LET OnRuntime(c) == c.op \in {"archive_email", "keep_in_inbox"}
        made == SelectSeq(calls[i], OnRuntime)
    IN  [k \in 1..Len(made) |-> <<made[k].op, made[k].err = "">>]

\* The response execute acts on when it runs alone: the re-checked response of
\* the client, or the re-checked fail-open response for the last error.
ResponseAlone(i) ==
    IF origin[i] = "client" THEN ThresholdRecheck(config, received[i])
    ELSE ThresholdRecheck(config, FailOpenResponse(config, LastClassifyError(i)))

\* The runtime calls of _apply_action when it runs alone and reports status.
RuntimeCallsAlone(i, status) ==
    IF ShadowBranch(config, MessageOf(i)) \/ KeepBranch(config, ResponseAlone(i))
    THEN <<(<<"keep_in_inbox", TRUE>>)>>
    ELSE IF status = "archived"
    THEN <<(<<"archive_email", TRUE>>)>>
    ELSE <<(<<"archive_email", FALSE>>), (<<"keep_in_inbox", TRUE>>)>>

\* The status _apply_action reports when it runs alone, the archive call
\* returning or raising as it did.
StatusAlone(i) ==
    IF ShadowBranch(config, MessageOf(i)) THEN "shadow_kept"
    ELSE IF KeepBranch(config, ResponseAlone(i)) THEN KeepStatus(config, ResponseAlone(i))
    ELSE IF FailedCallsOf(i, "archive_email") = {} THEN "archived"
    ELSE "action_failed"

\* C36 (Spec).  Every call an invocation makes on the action runtime and on the
\* ledger carries its own message identifier.  An invocation whose message no
\* other invocation works on, however the others are interleaved with it,
\* never takes the duplicate path, and returns the result, makes the runtime
\* calls and leaves the ledger entry that its own configuration, response and
\* runtime outcomes give when it runs alone.  And a step changes the ledger
\* membership and the runtime effects only of the message of the invocation
\* that takes it.
C36_MessageIsolation ==
    /\ [](\A i \in Inv :
             /\ \A k \in DOMAIN calls[i] :
                   calls[i][k].op \in {"is_applied", "archive_email", "keep_in_inbox",
                                       "mark_applied"} =>
                      calls[i][k].msg = MessageOf(i)
             /\ Unshared(i) =>
                   /\ origin[i] # "duplicate"
                   /\ ~lookupAfterMark[i]
                   /\ (Returned(i) /\ calls[i] # <<>>) =>
                         /\ result[i] = FullResult(StatusAlone(i), ResponseAlone(i))
                         /\ RuntimeCalls(i) = RuntimeCallsAlone(i, result[i].action_status)
                         /\ Key(i) \in ledger)
    /\ [][\A m \in MessageIds :
             \/ /\ (<<m, config.model_version>> \in ledger')
                      = (<<m, config.model_version>> \in ledger)
                /\ archived'[m] = archived[m]
                /\ kept'[m] = kept[m]
             \/ \E i \in Inv : pc'[i] # pc[i] /\ MessageOf(i) = m]_vars

\* C36 witness: two invocations for different messages run interleaved; one
\* has returned archived and its key is in the ledger, while the other, which
\* looked its key up before, is still at its action step, its key not in the
\* ledger.
C36_Witness ==
    \E i, j \in Inv :
       /\ MessageOf(i) # MessageOf(j)
       /\ Returned(i) /\ calls[i] # <<>> /\ result[i].action_status = "archived"
       /\ Key(i) \in ledger
       /\ pc[j] = "apply" /\ Key(j) \notin ledger
       /\ MessageOf(j) \in MessageIds

\* ------------------------------------------------------------------- C37

\* The key of invocation i as the claim gives it.
ConfiguredKey(i) == <<MessageOf(i), config.model_version>>

\* C37 (SpecSeq).  The ledger holds only keys made of a message identifier and
\* the configured model_version; the duplicate check of an invocation takes
\* the duplicate path exactly when the ledger holds (its message_id, the
\* configured model_version), and its record step adds exactly that key; so
\* once an invocation has returned a resolved status, whatever model_version
\* its response reported, a later invocation for the same message that returns
\* reports duplicate_skipped.
C37_LedgerKeyConsistency ==
    /\ [](/\ \A key \in ledger : key[1] \in MessageIds /\ key[2] = config.model_version
          /\ \A i, j \in Inv :
                (/\ i < j
                 /\ Returned(i) /\ result[i].action_status \in ResolvedStatuses
                 /\ Returned(j) /\ MessageOf(j) = MessageOf(i)) =>
                   result[j].action_status = "duplicate_skipped")
    /\ [][\A i \in Inv :
             /\ (pc[i] = "lookup" /\ pc'[i] # "lookup") =>
                   /\ (pc'[i] = "duplicate") = (ConfiguredKey(i) \in ledger)
                   /\ ledger' = ledger
             /\ (pc[i] = "record" /\ pc'[i] # "record") =>
                   ledger' = ledger \cup {ConfiguredKey(i)}
             /\ (pc[i] \notin {"record"} /\ pc'[i] # pc[i]) => ledger' = ledger]_vars

\* C37 witness: an invocation returned archived with a response reporting a
\* model_version other than the configured one, and the next invocation, for
\* the same message, returned duplicate_skipped.
C37_Witness ==
    \E i, j \in Inv :
       /\ i < j
       /\ MessageOf(i) = MessageOf(j)
       /\ Returned(i) /\ result[i].action_status = "archived"
       /\ result[i].model_version # config.model_version
       /\ Returned(j) /\ result[j].action_status = "duplicate_skipped"
       /\ ledger = {ConfiguredKey(i)}

\* ------------------------------------------------------------------- C38

\* The values of inference_retries that from_sources makes of the raw values
\* of the model.
ParsedRetries ==
    {ParseInt(raw, DefaultRetries) :
        raw \in {RawNum(n) : n \in (-1)..RxMaxRetries} \cup {RawText, RawNull, RawAbsent}}

\* C38 (SpecRetry).  For every max_retries that configuration parsing
\* produces, a run of run_with_retries that has ended has invoked the operation
\* at least once, and has returned the value the operation returned last or
\* raised an error that the operation raised.
C38_AlwaysAttempts ==
    (rx.max_retries \in ParsedRetries /\ rx.pc \in {"returned", "raised"}) =>
       /\ Len(rx.outcomes) >= 1
       /\ rx.pc = "returned" =>
             rx.outcomes[Len(rx.outcomes)] = [ok |-> TRUE, v |-> rx.value]
       /\ rx.pc = "raised" =>
             \E k \in DOMAIN rx.outcomes : rx.outcomes[k] = [ok |-> FALSE, v |-> rx.raised]

\* ------------------------------------------------------------------- C39

\* The toggle fields, each with its environment variable and built-in default.
Toggles ==
    {[field |-> "email_triage_archive_enabled", variable |-> "EMAIL_TRIAGE_ARCHIVE_ENABLED",
      default |-> TRUE],
     [field |-> "email_triage_fail_open", variable |-> "EMAIL_TRIAGE_FAIL_OPEN",
      default |-> TRUE],
     [field |-> "email_triage_blocklist_enabled", variable |-> "EMAIL_TRIAGE_BLOCKLIST_ENABLED",
      default |-> TRUE],
     [field |-> "email_triage_legacy_rules_enabled",
      variable |-> "EMAIL_TRIAGE_LEGACY_RULES_ENABLED", default |-> FALSE]}

\* A source supplies a value for a field.
Supplies(value) == value.t \notin {"absent", "none"}

\* The value reads as a boolean, and as which.
ReadsAsBool(value) == Supplies(value) /\ ~ParseBoolUsesDefault(value)

BoolRead(value) == ParseBool(value, FALSE)

\* C39 (SpecConfig).  In a built PluginConfig each toggle field has the value of
\* its environment variable when that variable is set, otherwise the value of
\* the configuration object, and the built-in default only when neither
\* source supplies a value; shadow_mode, canary_percent (within [0, 100]),
\* archive_confidence_threshold and inference_retries are those of the
\* configuration object, whatever the environment holds.
C39_ConfigPrecedence ==
    cfg.pc = "built" =>
       /\ \A g \in Toggles :
             LET env_value == cfg.env[g.variable]
                 conf_value == cfg.conf[g.field]
                 chosen == IF Supplies(env_value) THEN env_value ELSE conf_value
             IN  /\ ReadsAsBool(chosen) => cfg.built[g.field] = BoolRead(chosen)
                 /\ ParseBoolUsesDefault(EnvGet(env_value, conf_value)) =>
                       ~Supplies(env_value) /\ ~Supplies(conf_value)
                 /\ (~Supplies(env_value) /\ ~Supplies(conf_value)) =>
                       cfg.built[g.field] = g.default
       /\ cfg.built.shadow_mode =
             (IF ReadsAsBool(cfg.conf.shadow_mode) THEN BoolRead(cfg.conf.shadow_mode)
              ELSE FALSE)
       /\ cfg.built.canary_percent.k = "num"
       /\ 0 <= cfg.built.canary_percent.v /\ cfg.built.canary_percent.v <= CanaryFull
       /\ (cfg.conf.canary_percent.k = "num" /\ 0 <= cfg.conf.canary_percent.v
             /\ cfg.conf.canary_percent.v <= CanaryFull) =>
             cfg.built.canary_percent = cfg.conf.canary_percent
       /\ cfg.built.archive_confidence_threshold = cfg.conf.archive_confidence_threshold
       /\ cfg.built.inference_retries = cfg.conf.inference_retries.v
====
